---- MODULE Spec2Model ----
(***************************************************************************)
(* A model of parts of thydamon/leveldb:                                   *)
(*   - the sharded LRU cache of util/cache.cc (HandleTable, LRUCache,      *)
(*     ShardedLRUCache), driven by a single client thread;                 *)
(*   - the log reader of db/log_reader.cc reading files produced by the    *)
(*     log writer.                                                         *)
(***************************************************************************)
EXTENDS Integers, Sequences, FiniteSets, TLC

(***************************************************************************)
(* Bounds of the model.                                                    *)
(***************************************************************************)
\* Number of LRUHandle objects the client may allocate by Insert.
MaxInserts == 3
\* Number of handles a client holds at once, over all entries.
MaxHandles == 2
\* Charges passed to Insert are 1..MaxCharge.
MaxCharge == 2
\* Values passed to Insert are 1..MaxValue.
MaxValue == 2

(***************************************************************************)
(* Program constants.                                                      *)
(***************************************************************************)
kNumShardBits == 4
kNumShards == 16
NULL == 0

(***************************************************************************)
(* Cache state.                                                            *)
(*  shard_   : ShardedLRUCache::shard_, one LRUCache record per shard      *)
(*  heap     : the LRUHandle objects malloc'ed so far, by allocation order *)
(*  hashOf   : the hash of each key (HashSlice), fixed at construction     *)
(*  held     : client side: unreleased handles per LRUHandle               *)
(*  deleted  : number of deleter invocations per LRUHandle                 *)
(*  useOrder : LRUHandles ordered by the time of their last use            *)
(*             (Insert or Lookup), least recent first                      *)
(*  lastOp   : the operation the client performed last, with its result   *)
(*  script   : position of the scripted scenario (S5), "free" otherwise    *)
(***************************************************************************)
VARIABLES shard_, heap, hashOf, held, deleted, useOrder, lastOp, script

cacheVars == <<shard_, heap, hashOf, held, deleted, useOrder, lastOp, script>>

(***************************************************************************)
(* Log state.                                                              *)
(*  dest_         : the bytes of the log file, as appended by the writer   *)
(*                  (and possibly cut short by a crash)                    *)
(*  block_offset_ : log::Writer::block_offset_                             *)
(*  written       : the payloads handed to AddRecord so far, each with the *)
(*                  file offsets where its first fragment starts and where *)
(*                  its last fragment ends                                 *)
(*  truncated     : the file lost its tail in a crash                      *)
(*  reader        : the fields of log::Reader, the position of its         *)
(*                  SequentialFile and the calls its Reporter received     *)
(*  returned      : the records ReadRecord handed out, in order, each with *)
(*                  LastRecordOffset() right after the call                *)
(*  logPhase      : "idle", "write", "read" or "eof" (ReadRecord returned  *)
(*                  false)                                                 *)
(***************************************************************************)
VARIABLES dest_, block_offset_, written, truncated, reader, returned, logPhase

logVars == <<dest_, block_offset_, written, truncated, reader, returned, logPhase>>

(***************************************************************************)
(* The write batch and the table builder each have one variable, a record: *)
(*  wb : the batches of the write-batch client, what its handlers and its  *)
(*       memtable received                                                 *)
(*  tb : the table builder, its file and what its client added             *)
(***************************************************************************)
VARIABLES wb, tb

(***************************************************************************)
(* The table cache, the comparator's client, the three services of the     *)
(* POSIX environment and the arena each have one variable, a record:       *)
(*  tc      : the table cache's client: its live iterators, the handles it *)
(*            acquired and released, its last call                         *)
(*  sep     : the strings given to the comparator and what it made of them *)
(*  limiter : the mmap limiter and the threads using it                    *)
(*  locks   : the lock table, the files' fcntl locks and the locks held    *)
(*  bg      : the background queue, its thread and the scheduling threads  *)
(*  arena   : the arena, the blocks it owns and the regions it returned    *)
(***************************************************************************)
VARIABLES tc, sep, limiter, locks, bg, arena

compVars == <<tc, sep, limiter, locks, bg, arena>>

vars == <<cacheVars, logVars, wb, tb, compVars>>

Shards == 0 .. (kNumShards - 1)

\* A 32-bit hash is kept as <<hi, lo>>: hi its top kNumShardBits bits, lo the
\* remaining 28 bits (hash = hi * 2^28 + lo).
MkHash(hi, lo) == <<hi, lo>>

\* hash >> (32 - kNumShardBits)
Shard(hash) == hash[1]

\* hash & (length - 1), length a power of two not above 2^28
BucketOf(hash, length) == hash[2] % length

RECURSIVE SeqRemove(_, _)
SeqRemove(s, x) ==
  IF s = <<>> THEN <<>>
  ELSE IF Head(s) = x THEN Tail(s)
  ELSE <<Head(s)>> \o SeqRemove(Tail(s), x)

SeqIndex(s, x) == CHOOSE i \in 1 .. Len(s) : s[i] = x

InSeq(s, x) == \E i \in 1 .. Len(s) : s[i] = x

(***************************************************************************)
(* HandleTable.  A table is [length_, elems_, list_]; list_ is the bucket  *)
(* array (1-based here: bucket i of the code is list_[i + 1]), each bucket *)
(* the chain of LRUHandles linked by next_hash, head first.                *)
(***************************************************************************)

\* FindPointer: the slot that points to the entry matching key/hash, as
\* <<bucket, position in chain>>; position Len(chain) + 1 is the trailing slot.
RECURSIVE ChainFind(_, _, _, _, _)
ChainFind(hp, chain, pos, key, hash) ==
  IF pos > Len(chain) THEN pos
  ELSE IF hp[chain[pos]].hash = hash /\ hp[chain[pos]].key = key THEN pos
  ELSE ChainFind(hp, chain, pos + 1, key, hash)

FindPointer(hp, t, key, hash) ==
  LET b == BucketOf(hash, t.length_) + 1
  IN <<b, ChainFind(hp, t.list_[b], 1, key, hash)>>

\* *ptr
Deref(t, ptr) ==
  IF ptr[2] > Len(t.list_[ptr[1]]) THEN NULL ELSE t.list_[ptr[1]][ptr[2]]

TableLookup(hp, t, key, hash) == Deref(t, FindPointer(hp, t, key, hash))

RECURSIVE NewLength(_, _)
NewLength(n, elems) == IF n < elems THEN NewLength(n * 2, elems) ELSE n

\* Resize: every entry of every old bucket, in bucket and chain order, is
\* pushed at the head of its new bucket.
RECURSIVE Rehash(_, _, _, _)
Rehash(hp, todo, newList, newLength) ==
  IF todo = <<>> THEN newList
  ELSE LET h == Head(todo)
           b == BucketOf(hp[h].hash, newLength) + 1
       IN Rehash(hp, Tail(todo),
                 [newList EXCEPT ![b] = <<h>> \o @], newLength)

RECURSIVE Flatten(_)
Flatten(ss) == IF ss = <<>> THEN <<>> ELSE Head(ss) \o Flatten(Tail(ss))

Resize(hp, t) ==
  LET new_length == NewLength(4, t.elems_)
      empty == [i \in 1 .. new_length |-> <<>>]
  IN [length_ |-> new_length,
      elems_ |-> t.elems_,
      list_ |-> Rehash(hp, Flatten(t.list_), empty, new_length)]

\* HandleTable(): length_(0), elems_(0), list_(NULL), then Resize()
NewHandleTable == Resize(<<>>, [length_ |-> 0, elems_ |-> 0, list_ |-> <<>>])

\* HandleTable::Insert: [t |-> the table after, old |-> the displaced entry]
TableInsert(hp, t, h) ==
  LET ptr == FindPointer(hp, t, hp[h].key, hp[h].hash)
      old == Deref(t, ptr)
      chain == t.list_[ptr[1]]
      linked == IF old = NULL
                THEN [t EXCEPT !.list_[ptr[1]] = Append(chain, h)]
                ELSE [t EXCEPT !.list_[ptr[1]] = [chain EXCEPT ![ptr[2]] = h]]
      counted == IF old = NULL
                 THEN [linked EXCEPT !.elems_ = @ + 1]
                 ELSE linked
  IN [t |-> IF old = NULL /\ counted.elems_ > counted.length_
            THEN Resize(hp, counted)
            ELSE counted,
      old |-> old]

\* HandleTable::Remove: [t |-> the table after, result |-> the removed entry]
TableRemove(hp, t, key, hash) ==
  LET ptr == FindPointer(hp, t, key, hash)
      result == Deref(t, ptr)
  IN [t |-> IF result # NULL
            THEN [t EXCEPT !.list_[ptr[1]] = SeqRemove(@, result),
                           !.elems_ = @ - 1]
            ELSE t,
      result |-> result]

(***************************************************************************)
(* LRUCache.  A shard is [capacity_, usage_, lru_, table_]; lru_ is the    *)
(* circular list without its dummy head, lru_.next (oldest) first and      *)
(* lru_.prev (newest) last.  The operators work on a record                *)
(* [sh, heap, deleted] holding the shard, the heap and the deleter counts. *)
(***************************************************************************)
NewLRUCacheShard(capacity) ==
  [capacity_ |-> capacity, usage_ |-> 0, lru_ |-> <<>>,
   table_ |-> NewHandleTable]

\* The memory of a handle after free(e): its contents are gone.
Freed == [key |-> 0, hash |-> <<0, 0>>, value |-> 0, charge |-> 0, refs |-> 0,
          freed |-> TRUE]

\* Mutant of Unref: the entry is freed while one reference is left.
UnrefFreeingShared(st, e) ==
  LET refs == st.heap[e].refs - 1
      dec == [st EXCEPT !.heap[e].refs = refs]
  IN IF refs <= 1
     THEN [dec EXCEPT !.sh.usage_ = @ - st.heap[e].charge,
                      !.deleted[e] = @ + 1,
                      !.heap[e] = Freed]
     ELSE dec

\* LRUCache::Unref
Unref(st, e) ==
  LET refs == st.heap[e].refs - 1
      dec == [st EXCEPT !.heap[e].refs = refs]
  IN IF refs <= 0
     THEN [dec EXCEPT !.sh.usage_ = @ - st.heap[e].charge,
                      !.deleted[e] = @ + 1,
                      !.heap[e] = Freed]
     ELSE dec

\* LRUCache::LRU_Remove
LRU_Remove(st, e) == [st EXCEPT !.sh.lru_ = SeqRemove(@, e)]

\* LRUCache::LRU_Append
LRU_Append(st, e) == [st EXCEPT !.sh.lru_ = Append(@, e)]

EvictLoopNever(st) == st

\* The eviction loop of LRUCache::Insert
RECURSIVE EvictLoop(_)
EvictLoop(st) ==
  IF st.sh.usage_ > st.sh.capacity_ /\ st.sh.lru_ # <<>>
  THEN LET old == Head(st.sh.lru_)
           s1 == LRU_Remove(st, old)
           s2 == [s1 EXCEPT !.sh.table_ =
                    TableRemove(s1.heap, @, s1.heap[old].key,
                                s1.heap[old].hash).t]
       IN EvictLoop(Unref(s2, old))
  ELSE st

\* LRUCache::Insert; the new LRUHandle is Len(st.heap) + 1
LRUInsert(st, key, hash, value, charge) ==
  LET e == Len(st.heap) + 1
      s0 == [st EXCEPT !.heap = Append(@, [key |-> key, hash |-> hash,
                                           value |-> value, charge |-> charge,
                                           refs |-> 2, freed |-> FALSE]),
                       !.deleted = Append(@, 0)]
      s1 == LRU_Append(s0, e)
      s2 == [s1 EXCEPT !.sh.usage_ = @ + charge]
      ins == TableInsert(s2.heap, s2.sh.table_, e)
      s3 == [s2 EXCEPT !.sh.table_ = ins.t]
      s4 == IF ins.old # NULL THEN Unref(LRU_Remove(s3, ins.old), ins.old)
            ELSE s3
  IN [st |-> EvictLoop(s4), result |-> e]

\* Mutant of LRULookup: the hit is not moved to the newest end of the list.
LRULookupNoMove(st, key, hash) ==
  LET e == TableLookup(st.heap, st.sh.table_, key, hash)
  IN [st |-> IF e # NULL THEN [st EXCEPT !.heap[e].refs = @ + 1] ELSE st,
      result |-> e]

\* LRUCache::Lookup
LRULookup(st, key, hash) ==
  LET e == TableLookup(st.heap, st.sh.table_, key, hash)
  IN [st |-> IF e # NULL
             THEN LRU_Append(LRU_Remove([st EXCEPT !.heap[e].refs = @ + 1], e), e)
             ELSE st,
      result |-> e]

\* LRUCache::Release
LRURelease(st, handle) == Unref(st, handle)

\* Mutant of LRUErase: the cache's reference is not dropped.
LRUEraseNoUnref(st, key, hash) ==
  LET rem == TableRemove(st.heap, st.sh.table_, key, hash)
      s1 == [st EXCEPT !.sh.table_ = rem.t]
  IN IF rem.result # NULL THEN LRU_Remove(s1, rem.result) ELSE s1

\* LRUCache::Erase
LRUErase(st, key, hash) ==
  LET rem == TableRemove(st.heap, st.sh.table_, key, hash)
      s1 == [st EXCEPT !.sh.table_ = rem.t]
  IN IF rem.result # NULL THEN Unref(LRU_Remove(s1, rem.result), rem.result)
     ELSE s1

\* Mutant of PruneLoop: the walk ends at the first entry that is in use.
RECURSIVE PruneLoopStopAtPinned(_, _)
PruneLoopStopAtPinned(st, todo) ==
  IF todo = <<>> THEN st
  ELSE LET e == Head(todo)
       IN IF st.heap[e].refs = 1
          THEN LET s1 == [st EXCEPT !.sh.table_ =
                            TableRemove(st.heap, @, st.heap[e].key,
                                        st.heap[e].hash).t]
               IN PruneLoopStopAtPinned(Unref(LRU_Remove(s1, e), e), Tail(todo))
          ELSE st

\* LRUCache::Prune: walks the list from lru_.next
RECURSIVE PruneLoop(_, _)
PruneLoop(st, todo) ==
  IF todo = <<>> THEN st
  ELSE LET e == Head(todo)
       IN IF st.heap[e].refs = 1
          THEN LET s1 == [st EXCEPT !.sh.table_ =
                            TableRemove(st.heap, @, st.heap[e].key,
                                        st.heap[e].hash).t]
               IN PruneLoop(Unref(LRU_Remove(s1, e), e), Tail(todo))
          ELSE PruneLoop(st, Tail(todo))

LRUPrune(st) == PruneLoop(st, st.sh.lru_)

\* LRUCache::TotalCharge
LRUTotalCharge(sh) == sh.usage_

(***************************************************************************)
(* ShardedLRUCache, as used by one client thread.  Every operation runs    *)
(* under the shard's mutex, so each one is a single step.                  *)
(***************************************************************************)
\* Keys of the free-running specification are 0..MaxKey.
MaxKey == 2
\* NewLRUCache is called with a capacity in 1..MaxCapacity.
MaxCapacity == 32

Keys == 0 .. MaxKey
Capacities == 1 .. MaxCapacity
Values == 1 .. MaxValue
Charges == 1 .. MaxCharge

\* util/hash.cc is not part of the sources: the hash of a key is an unknown
\* fixed function, drawn at construction.  The free-running specification
\* uses keys that share a shard: either with distinct buckets, or with keys
\* 0 and 1 colliding on the full hash and key 2 colliding on the bucket only.
HashFamily ==
  { [k \in Keys |-> MkHash(1, k)],
    [k \in Keys |-> MkHash(1, IF k < 2 THEN 1 ELSE 1 + 4 * (k - 1))] }

\* ShardedLRUCache::HashSlice
HashSlice(key) == hashOf[key]

\* Mutant of NewShardedLRUCache: the per-shard capacity is rounded down.
NewShardedLRUCacheRoundDown(capacity) ==
  [s \in Shards |-> NewLRUCacheShard(capacity \div kNumShards)]

\* ShardedLRUCache::ShardedLRUCache
NewShardedLRUCache(capacity) ==
  LET per_shard == (capacity + (kNumShards - 1)) \div kNumShards
  IN [s \in Shards |-> NewLRUCacheShard(per_shard)]

St(s) == [sh |-> shard_[s], heap |-> heap, deleted |-> deleted]

RECURSIVE SumSeq(_)
SumSeq(s) == IF s = <<>> THEN 0 ELSE Head(s) + SumSeq(Tail(s))

HandlesHeld == SumSeq(held)

NoOp == [op |-> "New", key |-> 0, value |-> 0, result |-> NULL]

\* ShardedLRUCache::Value
Value(handle) == heap[handle].value

\* ShardedLRUCache::Insert
CacheInsert(key, value, charge) ==
  LET hash == HashSlice(key)
      s == Shard(hash)
      r == LRUInsert(St(s), key, hash, value, charge)
  IN /\ shard_' = [shard_ EXCEPT ![s] = r.st.sh]
     /\ heap' = r.st.heap
     /\ deleted' = r.st.deleted
     /\ held' = Append(held, 1)
     /\ useOrder' = Append(useOrder, r.result)
     /\ lastOp' = [op |-> "Insert", key |-> key, value |-> value,
                   result |-> r.result]
     /\ UNCHANGED hashOf

\* ShardedLRUCache::Lookup, followed by Value on a hit
CacheLookup(key) ==
  LET hash == HashSlice(key)
      s == Shard(hash)
      r == LRULookup(St(s), key, hash)
  IN /\ shard_' = [shard_ EXCEPT ![s] = r.st.sh]
     /\ heap' = r.st.heap
     /\ deleted' = r.st.deleted
     /\ held' = IF r.result # NULL THEN [held EXCEPT ![r.result] = @ + 1]
                ELSE held
     /\ useOrder' = IF r.result # NULL
                    THEN Append(SeqRemove(useOrder, r.result), r.result)
                    ELSE useOrder
     /\ lastOp' = [op |-> "Lookup", key |-> key,
                   value |-> IF r.result # NULL THEN r.st.heap[r.result].value
                             ELSE 0,
                   result |-> r.result]
     /\ UNCHANGED hashOf

\* ShardedLRUCache::Release.  REQUIRES: handle must not have been released yet.
CacheRelease(handle) ==
  LET s == Shard(heap[handle].hash)
      st == LRURelease(St(s), handle)
  IN /\ held[handle] > 0
     /\ shard_' = [shard_ EXCEPT ![s] = st.sh]
     /\ heap' = st.heap
     /\ deleted' = st.deleted
     /\ held' = [held EXCEPT ![handle] = @ - 1]
     /\ lastOp' = [op |-> "Release", key |-> heap[handle].key, value |-> 0,
                   result |-> handle]
     /\ UNCHANGED <<hashOf, useOrder>>

\* ShardedLRUCache::Erase
CacheErase(key) ==
  LET hash == HashSlice(key)
      s == Shard(hash)
      st == LRUErase(St(s), key, hash)
  IN /\ shard_' = [shard_ EXCEPT ![s] = st.sh]
     /\ heap' = st.heap
     /\ deleted' = st.deleted
     /\ lastOp' = [op |-> "Erase", key |-> key, value |-> 0, result |-> NULL]
     /\ UNCHANGED <<hashOf, held, useOrder>>

\* ShardedLRUCache::Prune: every shard in turn
RECURSIVE PruneShards(_, _, _, _)
PruneShards(s, sh, hp, del) ==
  IF s = kNumShards THEN [shard_ |-> sh, heap |-> hp, deleted |-> del]
  ELSE LET st == LRUPrune([sh |-> sh[s], heap |-> hp, deleted |-> del])
       IN PruneShards(s + 1, [sh EXCEPT ![s] = st.sh], st.heap, st.deleted)

CachePrune ==
  LET r == PruneShards(0, shard_, heap, deleted)
  IN /\ shard_' = r.shard_
     /\ heap' = r.heap
     /\ deleted' = r.deleted
     /\ lastOp' = [op |-> "Prune", key |-> 0, value |-> 0, result |-> NULL]
     /\ UNCHANGED <<hashOf, held, useOrder>>

\* ShardedLRUCache::TotalCharge
RECURSIVE TotalChargeFrom(_)
TotalChargeFrom(s) ==
  IF s = kNumShards THEN 0
  ELSE LRUTotalCharge(shard_[s]) + TotalChargeFrom(s + 1)

TotalCharge == TotalChargeFrom(0)

(***************************************************************************)
(* The free-running client: any sequence of Insert, Lookup, Release, Erase *)
(* and Prune, within the bounds.                                           *)
(***************************************************************************)
FreeScript == [phase |-> "free", i |-> 0]

\* No log is open while the cache client runs.
NoReader == [constructed |-> FALSE]

\* A component that is not in use
Idle == [phase |-> "idle"]

\* The table cache, the comparator and the environment are not in use.
CompIdle ==
  /\ tc = Idle
  /\ sep = Idle
  /\ limiter = Idle
  /\ locks = Idle
  /\ bg = Idle
  /\ arena = Idle

LogIdle ==
  /\ dest_ = <<>>
  /\ block_offset_ = 0
  /\ written = <<>>
  /\ truncated = FALSE
  /\ reader = NoReader
  /\ returned = <<>>
  /\ logPhase = "idle"

Init ==
  /\ hashOf \in HashFamily
  /\ \E capacity \in Capacities : shard_ = NewShardedLRUCache(capacity)
  /\ heap = <<>>
  /\ held = <<>>
  /\ deleted = <<>>
  /\ useOrder = <<>>
  /\ lastOp = NoOp
  /\ script = FreeScript
  /\ LogIdle
  /\ arena = Idle
  /\ wb = Idle
  /\ tb = Idle
  /\ CompIdle

Insert ==
  /\ Len(heap) < MaxInserts
  /\ HandlesHeld < MaxHandles
  /\ \E key \in Keys, value \in Values, charge \in Charges :
       CacheInsert(key, value, charge)
  /\ UNCHANGED <<script, logVars, wb, tb, compVars>>

Lookup ==
  /\ HandlesHeld < MaxHandles
  /\ \E key \in Keys : CacheLookup(key)
  /\ UNCHANGED <<script, logVars, wb, tb, compVars>>

Release ==
  /\ \E handle \in 1 .. Len(heap) : CacheRelease(handle)
  /\ UNCHANGED <<script, logVars, wb, tb, compVars>>

Erase ==
  /\ \E key \in Keys : CacheErase(key)
  /\ UNCHANGED <<script, logVars, wb, tb, compVars>>

Prune ==
  /\ CachePrune
  /\ UNCHANGED <<script, logVars, wb, tb, compVars>>

Next == Insert \/ Lookup \/ Release \/ Erase \/ Prune

Spec == Init /\ [][Next]_vars

(***************************************************************************)
(* The scripted scenario S5: a cache of capacity S5Capacity, S5Keys keys   *)
(* 0..S5Keys-1 inserted with charge 1, each handle released at once, then  *)
(* every key looked up (and the handle of a hit released).                 *)
(***************************************************************************)
S5Capacity == 10
S5Keys == 16

S5KeySet == 0 .. (S5Keys - 1)

S5Value(key) == 100 + key

\* The hash is unknown: key k falls in shard k % m, for every m.
S5HashFamily == { [k \in S5KeySet |-> MkHash(k % m, k)] : m \in 1 .. kNumShards }

S5Init ==
  /\ hashOf \in S5HashFamily
  /\ shard_ = NewShardedLRUCache(S5Capacity)
  /\ heap = <<>>
  /\ held = <<>>
  /\ deleted = <<>>
  /\ useOrder = <<>>
  /\ lastOp = NoOp
  /\ script = [phase |-> "insert", i |-> 0]
  /\ LogIdle
  /\ arena = Idle
  /\ wb = Idle
  /\ tb = Idle
  /\ CompIdle

S5Insert ==
  /\ script.phase = "insert"
  /\ CacheInsert(script.i, S5Value(script.i), 1)
  /\ script' = [script EXCEPT !.phase = "release"]
  /\ UNCHANGED <<logVars, wb, tb, compVars>>

S5Release ==
  /\ script.phase = "release"
  /\ CacheRelease(lastOp.result)
  /\ UNCHANGED <<logVars, wb, tb, compVars>>
  /\ script' = IF script.i + 1 < S5Keys
               THEN [phase |-> "insert", i |-> script.i + 1]
               ELSE [phase |-> "lookup", i |-> 0]

S5Lookup ==
  /\ script.phase = "lookup"
  /\ CacheLookup(script.i)
  /\ UNCHANGED <<logVars, wb, tb, compVars>>
  /\ script' = IF lastOp'.result # NULL
               THEN [script EXCEPT !.phase = "looked"]
               ELSE IF script.i + 1 < S5Keys
                    THEN [phase |-> "lookup", i |-> script.i + 1]
                    ELSE [phase |-> "done", i |-> script.i]

S5ReleaseLookup ==
  /\ script.phase = "looked"
  /\ CacheRelease(lastOp.result)
  /\ UNCHANGED <<logVars, wb, tb, compVars>>
  /\ script' = IF script.i + 1 < S5Keys
               THEN [phase |-> "lookup", i |-> script.i + 1]
               ELSE [phase |-> "done", i |-> script.i]

S5Next == S5Insert \/ S5Release \/ S5Lookup \/ S5ReleaseLookup

SpecS5 == S5Init /\ [][S5Next]_vars

(***************************************************************************)
(* The log: blocks of kBlockSize bytes holding physical records            *)
(*   [masked crc32c : 4][length : 2, little-endian][type : 1][payload].    *)
(* Bytes are integers 0..255, a file is a sequence of bytes.               *)
(***************************************************************************)
\* The model's block size.  The program's is 32768 (db/log_format.h:34);
\* the model keeps the header size and the 6-byte trailer test as they are
\* and shrinks the block so that records span blocks within a few bytes.
kBlockSize == 14
\* Number of AddRecord calls.
MaxRecords == 3
\* Payloads have 0..MaxPayload bytes.
MaxPayload == 8

kZeroType == 0
kFullType == 1
kFirstType == 2
kMiddleType == 3
kLastType == 4
kMaxRecordType == kLastType
kHeaderSize == 4 + 2 + 1
kEof == kMaxRecordType + 1
kBadRecord == kMaxRecordType + 2

Min(a, b) == IF a < b THEN a ELSE b

\* size bytes of value zero
Zeros(size) == [i \in 1 .. size |-> 0]

\* data.remove_prefix(n)
RemovePrefix(data, n) == SubSeq(data, n + 1, Len(data))

(***************************************************************************)
(* 32-bit words are kept as <<hi, lo>>, two 16-bit halves                  *)
(* (word = hi * 2^16 + lo).                                                *)
(***************************************************************************)
Add32(x, y) ==
  LET lo == x[2] + y[2]
  IN <<(x[1] + y[1] + (lo \div 65536)) % 65536, lo % 65536>>

Sub32(x, y) ==
  LET lo == x[2] - y[2]
      borrow == IF lo < 0 THEN 1 ELSE 0
  IN <<(x[1] - y[1] - borrow) % 65536, lo % 65536>>

\* Rotation of a word to the left by 17 bits (that is to the right by 15):
\* the halves change places, then one more bit to the left.
RotateLeft17(x) ==
  <<((x[2] * 2) % 65536) + (x[1] \div 32768),
    ((x[1] * 2) % 65536) + (x[2] \div 32768)>>

\* Its inverse, to the right by 17 bits (to the left by 15).
RotateRight17(x) ==
  <<(x[2] \div 2) + ((x[1] % 2) * 32768),
    (x[1] \div 2) + ((x[2] % 2) * 32768)>>

\* 0xa282ead8
kMaskDelta == <<41602, 60120>>

\* crc32c::Mask: ((crc >> 15) | (crc << 17)) + kMaskDelta
Mask(crc) == Add32(RotateLeft17(crc), kMaskDelta)

\* crc32c::Unmask: rot = masked_crc - kMaskDelta; (rot >> 17) | (rot << 15)
Unmask(masked_crc) == RotateRight17(Sub32(masked_crc, kMaskDelta))

\* crc32c::Value.  The checksum is a function of all the bytes and of their
\* order; the model computes it as two running sums modulo 65521 in place of
\* the Castagnoli polynomial.
RECURSIVE Crc32cSums(_, _, _, _)
Crc32cSums(data, i, s1, s2) ==
  IF i > Len(data)
  THEN <<s2, s1>>
  ELSE LET t == (s1 + data[i]) % 65521
       IN Crc32cSums(data, i + 1, t, (s2 + t) % 65521)

Crc32cValue(data) == Crc32cSums(data, 1, 1, 0)

\* EncodeFixed32: the four bytes of a word, least significant first
EncodeFixed32(value) ==
  <<value[2] % 256, value[2] \div 256, value[1] % 256, value[1] \div 256>>

\* DecodeFixed32: the word held by the first four bytes of ptr
DecodeFixed32(ptr) == <<ptr[3] + (ptr[4] * 256), ptr[1] + (ptr[2] * 256)>>

(***************************************************************************)
(* log::Writer.                                                            *)
(***************************************************************************)
\* Writer::EmitPhysicalRecord: the bytes of one physical record
EmitPhysicalRecord(t, fragment) ==
  EncodeFixed32(Mask(Crc32cValue(<<t>> \o fragment)))
    \o <<Len(fragment) % 256, Len(fragment) \div 256, t>>
    \o fragment

\* Writer::AddRecord: the fragments of one payload, appended to dest after
\* the zero padding of a block tail shorter than a header.  start is the
\* file offset of the first fragment's header.
RECURSIVE WriteFragments(_, _, _, _, _)
WriteFragments(dest, block_offset, left, begin, start) ==
  LET leftover == kBlockSize - block_offset
      switch == leftover < kHeaderSize
      padded == IF switch THEN dest \o Zeros(leftover) ELSE dest
      offset == IF switch THEN 0 ELSE block_offset
      avail == kBlockSize - offset - kHeaderSize
      fragment_length == Min(Len(left), avail)
      end == Len(left) = fragment_length
      type == IF begin /\ end THEN kFullType
              ELSE IF begin THEN kFirstType
              ELSE IF end THEN kLastType
              ELSE kMiddleType
      emitted == padded \o EmitPhysicalRecord(type, SubSeq(left, 1, fragment_length))
      first == IF begin THEN Len(padded) ELSE start
  IN IF end
     THEN [dest |-> emitted,
           block_offset |-> offset + kHeaderSize + fragment_length,
           start |-> first]
     ELSE WriteFragments(emitted, offset + kHeaderSize + fragment_length,
                         RemovePrefix(left, fragment_length), FALSE, first)

WriterAddRecord(dest, block_offset, slice) ==
  WriteFragments(dest, block_offset, slice, TRUE, 0)

(***************************************************************************)
(* SequentialFile over dest_ (PosixSequentialFile: fread and fseek).  A    *)
(* file is its position pos and its faults: reads that reach the byte at   *)
(* offset bad_from fail (none when bad_from is -1), Skip fails when        *)
(* skip_fails.                                                             *)
(***************************************************************************)
NewSequentialFile(bad_from, skip_fails) ==
  [pos |-> 0, bad_from |-> bad_from, skip_fails |-> skip_fails]

\* Read(n): up to n bytes from the position; fewer at the end of the file
\* with an OK status, or fewer with an IOError when the read fails part way.
FileRead(file, n) ==
  LET to == Min(file.pos + n, Len(dest_))
      ok == ~(file.bad_from >= 0 /\ file.bad_from < to /\ file.pos < to)
      upto == IF ok THEN to ELSE file.bad_from
      data == IF file.pos >= upto THEN <<>> ELSE SubSeq(dest_, file.pos + 1, upto)
  IN [file |-> [file EXCEPT !.pos = @ + Len(data)], data |-> data, ok |-> ok]

\* Skip(n): fseek(file_, n, SEEK_CUR)
FileSkip(file, n) ==
  IF file.skip_fails
  THEN [file |-> file, ok |-> FALSE]
  ELSE [file |-> [file EXCEPT !.pos = @ + n], ok |-> TRUE]

(***************************************************************************)
(* log::Reader.  A reader is a record of the fields of the class, with     *)
(*   reported : the calls reporter_->Corruption(bytes, reason) so far      *)
(*   dropped  : every place where the reader gave up bytes of the file     *)
(*              with a report to ReportDrop: the file offset the place     *)
(*              starts from, the reason, and whether the reporter was      *)
(*              called for it                                              *)
(* reporter_ is TRUE for a reader that was given a Reporter.               *)
(***************************************************************************)
\* Reader::Reader
NewReader(file, reporter, checksum, initial_offset) ==
  [constructed |-> TRUE,
   file_ |-> file,
   reporter_ |-> reporter,
   checksum_ |-> checksum,
   buffer_ |-> <<>>,
   eof_ |-> FALSE,
   last_record_offset_ |-> 0,
   end_of_buffer_offset_ |-> 0,
   initial_offset_ |-> initial_offset,
   resyncing_ |-> initial_offset > 0,
   reported |-> <<>>,
   dropped |-> <<>>]

\* x >= y for a uint64_t difference x of file offsets: a negative x stands
\* for x + 2^64, above every offset of the model.
Uint64GE(x, y) == x < 0 \/ x >= y

ReportDropAlways(r, bytes, reason) ==
  [r EXCEPT !.reported = Append(@, [bytes |-> bytes, reason |-> reason])]

\* Reader::ReportDrop
ReportDrop(r, bytes, reason) ==
  IF /\ r.reporter_
     /\ Uint64GE(r.end_of_buffer_offset_ - Len(r.buffer_) - bytes, r.initial_offset_)
  THEN [r EXCEPT !.reported = Append(@, [bytes |-> bytes, reason |-> reason])]
  ELSE r

\* ReportDrop(bytes, reason) for the bytes given up from file offset from on:
\* the call, and its record in dropped.
Drop(r, from, bytes, reason) ==
  LET after == ReportDrop(r, bytes, reason)
  IN [after EXCEPT !.dropped =
        Append(@, [from |-> from,
                   reason |-> reason,
                   notified |-> Len(after.reported) > Len(r.reported)])]

\* Reader::ReportCorruption
ReportCorruption(r, from, bytes, reason) == Drop(r, from, bytes, reason)

\* Reader::SkipToInitialBlock: the reader after the call and the value
\* returned
SkipToInitialBlock(r) ==
  LET offset_in_block == r.initial_offset_ % kBlockSize
      in_trailer == offset_in_block > kBlockSize - 6
      block_start_location ==
        (r.initial_offset_ - offset_in_block) + (IF in_trailer THEN kBlockSize ELSE 0)
      positioned == [r EXCEPT !.end_of_buffer_offset_ = block_start_location]
      skip == FileSkip(r.file_, block_start_location)
  IN IF block_start_location > 0
     THEN IF ~skip.ok
          THEN [r |-> Drop(positioned, block_start_location, block_start_location,
                           "IOError"),
                ok |-> FALSE]
          ELSE [r |-> [positioned EXCEPT !.file_ = skip.file], ok |-> TRUE]
     ELSE [r |-> positioned, ok |-> TRUE]

\* ReadPhysicalRecord, buffer_.size() < kHeaderSize and !eof_: the next block
\* is read into buffer_; a failed Read drops it and ends the file.  The
\* reader after the Read and the status of the Read.
ReadBlock(r) ==
  LET read == FileRead(r.file_, kBlockSize)
      filled == [r EXCEPT !.file_ = read.file,
                          !.buffer_ = read.data,
                          !.end_of_buffer_offset_ = @ + Len(read.data)]
  IN IF ~read.ok
     THEN [r |-> [Drop([filled EXCEPT !.buffer_ = <<>>], r.end_of_buffer_offset_,
                       kBlockSize, "IOError")
                    EXCEPT !.eof_ = TRUE],
           ok |-> FALSE]
     ELSE [r |-> [filled EXCEPT !.eof_ = Len(read.data) < kBlockSize], ok |-> TRUE]

\* const unsigned int type = header[6]: a char above 127 is negative and
\* becomes a value near 2^32, kept here as the negative number
HeaderType(byte) == IF byte < 128 THEN byte ELSE byte - 256

BadLengthAlwaysReported(r) ==
  [r |-> ReportCorruption([r EXCEPT !.buffer_ = <<>>],
                          r.end_of_buffer_offset_ - Len(r.buffer_),
                          Len(r.buffer_), "bad record length"),
   type |-> kBadRecord,
   result |-> <<>>]

\* ReadPhysicalRecord, kHeaderSize + length > buffer_.size(): a corruption
\* unless the end of the file was reached
BadLength(r) ==
  IF ~r.eof_
  THEN [r |-> ReportCorruption([r EXCEPT !.buffer_ = <<>>],
                               r.end_of_buffer_offset_ - Len(r.buffer_),
                               Len(r.buffer_), "bad record length"),
        type |-> kBadRecord,
        result |-> <<>>]
  ELSE [r |-> [r EXCEPT !.buffer_ = <<>>], type |-> kEof, result |-> <<>>]

StartedBeforeInitialOffsetNever(r, length) == FALSE

\* ReadPhysicalRecord, after buffer_.remove_prefix(kHeaderSize + length):
\* the physical record started before initial_offset_
StartedBeforeInitialOffset(r, length) ==
  r.end_of_buffer_offset_ - Len(r.buffer_) - kHeaderSize - length < r.initial_offset_

SkipZeroRecordOnly(r) ==
  [r |-> [r EXCEPT !.buffer_ = RemovePrefix(@, kHeaderSize)],
   type |-> kBadRecord,
   result |-> <<>>]

\* ReadPhysicalRecord, if (type == kZeroType && length == 0): the rest of
\* the block is given up with the header, without a report
SkipZeroRecord(r) ==
  [r |-> [r EXCEPT !.buffer_ = <<>>], type |-> kBadRecord, result |-> <<>>]

ClearBufferAndStop(r) == [r EXCEPT !.buffer_ = <<>>, !.eof_ = TRUE]

\* ReadPhysicalRecord, on a checksum mismatch: buffer_.clear()
ClearBuffer(r) == [r EXCEPT !.buffer_ = <<>>]

ChecksumMismatchNever(r, header, length) == FALSE

\* ReadPhysicalRecord, if (checksum_): the crc of the type and the payload
\* is not the one the header stores
ChecksumMismatch(r, header, length) ==
  /\ r.checksum_
  /\ Crc32cValue(SubSeq(header, 7, 7 + length)) # Unmask(DecodeFixed32(header))

\* Reader::ReadPhysicalRecord: the reader after the call, the type returned
\* and *result
RECURSIVE ReadPhysicalRecord(_)
ReadPhysicalRecord(r) ==
  IF Len(r.buffer_) < kHeaderSize
  THEN IF ~r.eof_
       THEN LET next == ReadBlock(r)
            IN IF next.ok
               THEN ReadPhysicalRecord(next.r)
               ELSE [r |-> next.r, type |-> kEof, result |-> <<>>]
       ELSE [r |-> [r EXCEPT !.buffer_ = <<>>], type |-> kEof, result |-> <<>>]
  ELSE LET header == r.buffer_
           a == header[5]
           b == header[6]
           type == HeaderType(header[7])
           length == a + (b * 256)
           cleared == [r EXCEPT !.buffer_ = <<>>]
           removed == [r EXCEPT !.buffer_ = RemovePrefix(@, kHeaderSize + length)]
           from == r.end_of_buffer_offset_ - Len(r.buffer_)
       IN IF kHeaderSize + length > Len(r.buffer_)
          THEN BadLength(r)
          ELSE IF type = kZeroType /\ length = 0
          THEN SkipZeroRecord(r)
          ELSE IF ChecksumMismatch(r, header, length)
          THEN [r |-> ReportCorruption(ClearBuffer(r), from, Len(r.buffer_),
                                       "checksum mismatch"),
                type |-> kBadRecord,
                result |-> <<>>]
          ELSE IF StartedBeforeInitialOffset(removed, length)
          THEN [r |-> removed, type |-> kBadRecord, result |-> <<>>]
          ELSE [r |-> removed,
                type |-> type,
                result |-> SubSeq(header, kHeaderSize + 1, kHeaderSize + length)]

EndPartialRecordSilently(r, in_fragmented_record, scratch, prospective_record_offset, record_type) ==
  r

\* case kFullType and case kFirstType, if (in_fragmented_record): an empty
\* scratch is let go, as older writers left an empty FIRST fragment at the
\* end of a block; any other is reported
EndPartialRecord(r, in_fragmented_record, scratch, prospective_record_offset, record_type) ==
  IF in_fragmented_record /\ scratch # <<>>
  THEN ReportCorruption(r, prospective_record_offset, Len(scratch),
         IF record_type = kFullType
         THEN "partial record without end(1)"
         ELSE "partial record without end(2)")
  ELSE r

ScratchAssign(scratch, fragment) == fragment

\* scratch->append(fragment.data(), fragment.size())
ScratchAppend(scratch, fragment) == scratch \o fragment

\* The loop of Reader::ReadRecord: the reader after the call, the value
\* returned and *record
RECURSIVE ReadRecordLoop(_, _, _, _)
ReadRecordLoop(r, in_fragmented_record, scratch, prospective_record_offset) ==
  LET physical_record_offset == r.end_of_buffer_offset_ - Len(r.buffer_)
      \* the switch on the value p of ReadPhysicalRecord(&fragment)
      Switch(p) ==
        LET record_type == p.type
            fragment == p.result
            \* where the header of the fragment lies in the file
            fragment_offset ==
              p.r.end_of_buffer_offset_ - Len(p.r.buffer_) - kHeaderSize - Len(fragment)
            skipped == p.r.resyncing_ /\ record_type \in {kMiddleType, kLastType}
            r1 == [p.r EXCEPT !.resyncing_ = @ /\ record_type = kMiddleType]
            r2 == EndPartialRecord(r1, in_fragmented_record, scratch,
                                   prospective_record_offset, record_type)
        IN IF skipped
           THEN ReadRecordLoop(r1, in_fragmented_record, scratch, prospective_record_offset)
           ELSE CASE record_type = kFullType ->
                       [r |-> [r2 EXCEPT !.last_record_offset_ = physical_record_offset],
                        ok |-> TRUE,
                        record |-> fragment]
                  [] record_type = kFirstType ->
                       ReadRecordLoop(r2, TRUE, fragment, physical_record_offset)
                  [] record_type = kMiddleType ->
                       IF ~in_fragmented_record
                       THEN ReadRecordLoop(
                              ReportCorruption(r1, fragment_offset, Len(fragment),
                                               "missing start of fragmented record(1)"),
                              in_fragmented_record, scratch, prospective_record_offset)
                       ELSE ReadRecordLoop(r1, in_fragmented_record,
                                           ScratchAppend(scratch, fragment),
                                           prospective_record_offset)
                  [] record_type = kLastType ->
                       IF ~in_fragmented_record
                       THEN ReadRecordLoop(
                              ReportCorruption(r1, fragment_offset, Len(fragment),
                                               "missing start of fragmented record(2)"),
                              in_fragmented_record, scratch, prospective_record_offset)
                       ELSE [r |-> [r1 EXCEPT !.last_record_offset_ = prospective_record_offset],
                             ok |-> TRUE,
                             record |-> ScratchAppend(scratch, fragment)]
                  [] record_type = kEof ->
                       [r |-> r1, ok |-> FALSE, record |-> <<>>]
                  [] record_type = kBadRecord ->
                       IF in_fragmented_record
                       THEN ReadRecordLoop(
                              ReportCorruption(r1, prospective_record_offset, Len(scratch),
                                               "error in middle of record"),
                              FALSE, <<>>, prospective_record_offset)
                       ELSE ReadRecordLoop(r1, in_fragmented_record, scratch,
                                           prospective_record_offset)
                  [] OTHER ->
                       ReadRecordLoop(
                         ReportCorruption(r1, fragment_offset,
                           Len(fragment) + (IF in_fragmented_record THEN Len(scratch) ELSE 0),
                           "unknown record type"),
                         FALSE, <<>>, prospective_record_offset)
  IN Switch(ReadPhysicalRecord(r))

\* Reader::ReadRecord
ReadRecord(r) ==
  LET skip == IF r.last_record_offset_ < r.initial_offset_
              THEN SkipToInitialBlock(r)
              ELSE [r |-> r, ok |-> TRUE]
  IN IF ~skip.ok
     THEN [r |-> skip.r, ok |-> FALSE, record |-> <<>>]
     ELSE ReadRecordLoop(skip.r, FALSE, <<>>, 0)

\* Reader::LastRecordOffset
LastRecordOffset(r) == r.last_record_offset_

(***************************************************************************)
(* The log client: a writer appends up to MaxRecords records; the file may *)
(* then lose its tail in a crash; a reader is opened at an initial offset  *)
(* and ReadRecord is called until it returns false.                        *)
(***************************************************************************)
\* The payload of the i-th record: len bytes, different from record to
\* record and from place to place.
Payload(i, len) == [j \in 1 .. len |-> (32 * i + j) % 256]

\* No cache exists while another client runs.
CacheIdle ==
  /\ shard_ = <<>>
  /\ heap = <<>>
  /\ hashOf = <<>>
  /\ held = <<>>
  /\ deleted = <<>>
  /\ useOrder = <<>>
  /\ lastOp = NoOp
  /\ script = [phase |-> "log", i |-> 0]

LogInit ==
  /\ CacheIdle
  /\ arena = Idle
  /\ wb = Idle
  /\ tb = Idle
  /\ CompIdle
  /\ dest_ = <<>>
  /\ block_offset_ = 0
  /\ written = <<>>
  /\ truncated = FALSE
  /\ reader = NoReader
  /\ returned = <<>>
  /\ logPhase = "write"

\* writer.AddRecord(payload), for a writer that adds up to records records
AddRecordUpTo(records) ==
  /\ logPhase = "write"
  /\ ~truncated
  /\ Len(written) < records
  /\ \E len \in 0 .. MaxPayload :
       LET slice == Payload(Len(written) + 1, len)
           w == WriterAddRecord(dest_, block_offset_, slice)
       IN /\ dest_' = w.dest
          /\ block_offset_' = w.block_offset
          /\ written' = Append(written, [payload |-> slice,
                                         start |-> w.start,
                                         end |-> Len(w.dest)])
  /\ UNCHANGED <<cacheVars, wb, tb, compVars, truncated, reader, returned, logPhase>>

LogAddRecord == AddRecordUpTo(MaxRecords)

\* A crash leaves a prefix of the file.
LogTruncate ==
  /\ logPhase = "write"
  /\ ~truncated
  /\ \E size \in 0 .. (Len(dest_) - 1) : dest_' = SubSeq(dest_, 1, size)
  /\ truncated' = TRUE
  /\ UNCHANGED <<cacheVars, wb, tb, compVars, block_offset_, written, reader, returned, logPhase>>

\* The initial offsets of the model: within the file; the start of the file
\* only, for a file that lost its tail.
InitialOffsets ==
  IF truncated \/ dest_ = <<>> THEN {0} ELSE 0 .. (Len(dest_) - 1)

\* log::Reader reader(file, &reporter, true /*checksum*/, initial_offset)
LogOpen ==
  /\ logPhase = "write"
  /\ \E initial_offset \in InitialOffsets :
       reader' = NewReader(NewSequentialFile(-1, FALSE), TRUE, TRUE, initial_offset)
  /\ logPhase' = "read"
  /\ UNCHANGED <<cacheVars, wb, tb, compVars, dest_, block_offset_, written, truncated, returned>>

\* reader.ReadRecord(&record, &scratch)
LogRead ==
  /\ logPhase = "read"
  /\ LET res == ReadRecord(reader)
     IN /\ reader' = res.r
        /\ returned' = IF res.ok
                       THEN Append(returned, [record |-> res.record,
                                              offset |-> LastRecordOffset(res.r)])
                       ELSE returned
        /\ logPhase' = IF res.ok THEN "read" ELSE "eof"
  /\ UNCHANGED <<cacheVars, wb, tb, compVars, dest_, block_offset_, written, truncated>>

LogNext == LogAddRecord \/ LogTruncate \/ LogOpen \/ LogRead

SpecLog == LogInit /\ [][LogNext]_vars

(***************************************************************************)
(* The log client with faults: the writer appends up to MaxFaultRecords    *)
(* records; then either one byte of the file is overwritten, or the file   *)
(* the reader gets fails to read from some offset on, or fails to skip;    *)
(* the reader is opened at any initial offset and ReadRecord is called     *)
(* until it returns false.                                                 *)
(***************************************************************************)
\* Number of AddRecord calls before a fault.
MaxFaultRecords == 2

FaultAddRecord == AddRecordUpTo(MaxFaultRecords)

\* The values a damaged byte takes: zero, an unknown record type, its
\* successor.
DamagedBytes(byte) == {0, kMaxRecordType + 3, (byte + 1) % 256} \ {byte}

\* One byte of the file is overwritten.
LogCorrupt ==
  /\ logPhase = "write"
  /\ \E at \in 1 .. Len(dest_) :
       \E byte \in DamagedBytes(dest_[at]) : dest_' = [dest_ EXCEPT ![at] = byte]
  /\ logPhase' = "corrupt"
  /\ UNCHANGED <<cacheVars, wb, tb, compVars, block_offset_, written, truncated, reader, returned>>

\* log::Reader reader(file, &reporter, checksum, initial_offset) on a damaged
\* file, with or without verification of checksums
LogOpenCorrupt ==
  /\ logPhase = "corrupt"
  /\ \E initial_offset \in 0 .. Len(dest_), checksum \in BOOLEAN :
       reader' = NewReader(NewSequentialFile(-1, FALSE), TRUE, checksum, initial_offset)
  /\ logPhase' = "read"
  /\ UNCHANGED <<cacheVars, wb, tb, compVars, dest_, block_offset_, written, truncated, returned>>

\* log::Reader reader(file, &reporter, true, initial_offset) on a file whose
\* Read fails from some offset on, or whose Skip fails
LogOpenFailing ==
  /\ logPhase = "write"
  /\ dest_ # <<>>
  /\ \E initial_offset \in 0 .. Len(dest_) :
       \/ \E bad_from \in 0 .. (Len(dest_) - 1) :
            reader' = NewReader(NewSequentialFile(bad_from, FALSE), TRUE, TRUE,
                                initial_offset)
       \/ reader' = NewReader(NewSequentialFile(-1, TRUE), TRUE, TRUE, initial_offset)
  /\ logPhase' = "read"
  /\ UNCHANGED <<cacheVars, wb, tb, compVars, dest_, block_offset_, written, truncated, returned>>

FaultNext == FaultAddRecord \/ LogCorrupt \/ LogOpenCorrupt \/ LogOpenFailing \/ LogRead

SpecLogFault == LogInit /\ [][FaultNext]_vars

(***************************************************************************)
(* util/coding.cc: fixed-width and varint encodings over byte sequences.   *)
(***************************************************************************)
\* The 32-bit word of a number below 2^31, and the number of such a word
Word32(n) == <<n \div 65536, n % 65536>>

Number32(word) == (word[1] * 65536) + word[2]

\* EncodeFixed64: the eight bytes of a number (below 2^31 in the model),
\* least significant first
EncodeFixed64(value) == EncodeFixed32(Word32(value)) \o <<0, 0, 0, 0>>

\* DecodeFixed64 of eight bytes whose upper bytes are zero
DecodeFixed64(ptr) == Number32(DecodeFixed32(ptr))

\* EncodeVarint32: seven bits a byte, least significant first, bit 7 set on
\* every byte but the last (v below 2^21 in the model)
EncodeVarint32(v) ==
  IF v < 128
  THEN <<v>>
  ELSE IF v < 16384
  THEN <<(v % 128) + 128, v \div 128>>
  ELSE <<(v % 128) + 128, ((v \div 128) % 128) + 128, v \div 16384>>

PutSliceWithoutLength(dst, value) == dst \o value

\* PutLengthPrefixedSlice: PutVarint32(dst, value.size()), then the bytes
PutLengthPrefixedSlice(dst, value) == dst \o EncodeVarint32(Len(value)) \o value

\* GetVarint32PtrFallback from index p of input, with shift: p after the
\* varint and its value, or p = 0 for NULL.  The fifth byte is shifted by 28
\* within 32 bits, which keeps its low four bits; a value of 2^31 or more is
\* written 2^31 - 1, which is also more than any length of input.
RECURSIVE GetVarint32PtrFallback(_, _, _, _)
GetVarint32PtrFallback(input, p, shift, result) ==
  IF ~(shift <= 28 /\ p <= Len(input))
  THEN [p |-> 0, value |-> 0]
  ELSE LET byte == input[p]
           shifted == IF shift < 28
                      THEN result + ((byte % 128) * (2 ^ shift))
                      ELSE IF byte % 16 >= 8
                      THEN 2147483647
                      ELSE result + ((byte % 16) * (2 ^ shift))
       IN IF byte >= 128
          THEN GetVarint32PtrFallback(input, p + 1, shift + 7, shifted)
          ELSE [p |-> p + 1, value |-> shifted]

\* GetVarint32(&input, &value): whether a varint was read, its value and the
\* rest of input
GetVarint32(input) ==
  LET q == GetVarint32PtrFallback(input, 1, 0, 0)
  IN IF q.p = 0
     THEN [ok |-> FALSE, value |-> 0, input |-> input]
     ELSE [ok |-> TRUE, value |-> q.value, input |-> RemovePrefix(input, q.p - 1)]

\* GetLengthPrefixedSlice(&input, &result)
GetLengthPrefixedSlice(input) ==
  LET v == GetVarint32(input)
  IN IF v.ok /\ Len(v.input) >= v.value
     THEN [ok |-> TRUE,
           result |-> SubSeq(v.input, 1, v.value),
           input |-> RemovePrefix(v.input, v.value)]
     ELSE [ok |-> FALSE, result |-> <<>>, input |-> v.input]

(***************************************************************************)
(* WriteBatch: rep_ is the sequence (fixed64), the count (fixed32) and the *)
(* records  kTypeValue varstring varstring | kTypeDeletion varstring.      *)
(***************************************************************************)
kTypeDeletion == 0
kTypeValue == 1
kHeader == 12

\* WriteBatch::Clear
Clear == Zeros(kHeader)

\* WriteBatchInternal::Count
Count(rep) == Number32(DecodeFixed32(SubSeq(rep, 9, 12)))

\* WriteBatchInternal::SetCount
SetCount(rep, n) == SubSeq(rep, 1, 8) \o EncodeFixed32(Word32(n)) \o RemovePrefix(rep, 12)

\* WriteBatchInternal::Sequence
Sequence(rep) == DecodeFixed64(SubSeq(rep, 1, 8))

\* WriteBatchInternal::SetSequence
SetSequence(rep, seq) == EncodeFixed64(seq) \o RemovePrefix(rep, 8)

PutWithoutCount(rep, key, value) ==
  PutLengthPrefixedSlice(PutLengthPrefixedSlice(rep \o <<kTypeValue>>, key), value)

\* WriteBatch::Put
Put(rep, key, value) ==
  PutLengthPrefixedSlice(
    PutLengthPrefixedSlice(SetCount(rep, Count(rep) + 1) \o <<kTypeValue>>, key),
    value)

\* WriteBatch::Delete
Delete(rep, key) ==
  PutLengthPrefixedSlice(SetCount(rep, Count(rep) + 1) \o <<kTypeDeletion>>, key)

CountStatusAlwaysOK(rep, found) == "OK"

\* The end of WriteBatch::Iterate: the test of found against the count
CountStatus(rep, found) ==
  IF found # Count(rep)
  THEN "Corruption: WriteBatch has wrong count"
  ELSE "OK"

\* The loop of WriteBatch::Iterate: the status returned and the calls
\* handler->Put(key, value) and handler->Delete(key) made, in order
RECURSIVE IterateLoop(_, _, _, _)
IterateLoop(rep, input, found, calls) ==
  IF input = <<>>
  THEN [status |-> CountStatus(rep, found), calls |-> calls]
  ELSE LET tag == input[1]
           key == GetLengthPrefixedSlice(RemovePrefix(input, 1))
           value == GetLengthPrefixedSlice(key.input)
       IN CASE tag = kTypeValue ->
                 IF key.ok /\ value.ok
                 THEN IterateLoop(rep, value.input, found + 1,
                        Append(calls, [type |-> kTypeValue,
                                       key |-> key.result,
                                       value |-> value.result]))
                 ELSE [status |-> "Corruption: bad WriteBatch Put", calls |-> calls]
            [] tag = kTypeDeletion ->
                 IF key.ok
                 THEN IterateLoop(rep, key.input, found + 1,
                        Append(calls, [type |-> kTypeDeletion,
                                       key |-> key.result,
                                       value |-> <<>>]))
                 ELSE [status |-> "Corruption: bad WriteBatch Delete", calls |-> calls]
            [] OTHER ->
                 [status |-> "Corruption: unknown WriteBatch tag", calls |-> calls]

IterateAllOrNothing(rep) ==
  LET Whole(it) == IF it.status = "OK" THEN it ELSE [it EXCEPT !.calls = <<>>]
  IN IF Len(rep) < kHeader
     THEN [status |-> "Corruption: malformed WriteBatch (too small)", calls |-> <<>>]
     ELSE Whole(IterateLoop(rep, RemovePrefix(rep, kHeader), 0, <<>>))

\* WriteBatch::Iterate
Iterate(rep) ==
  IF Len(rep) < kHeader
  THEN [status |-> "Corruption: malformed WriteBatch (too small)", calls |-> <<>>]
  ELSE IterateLoop(rep, RemovePrefix(rep, kHeader), 0, <<>>)

InsertIntoSameSequence(rep) ==
  LET it == Iterate(rep)
  IN [status |-> it.status,
      mem |-> [i \in 1 .. Len(it.calls) |->
                 [sequence |-> Sequence(rep),
                  type |-> it.calls[i].type,
                  key |-> it.calls[i].key,
                  value |-> it.calls[i].value]]]

\* WriteBatchInternal::InsertInto with MemTableInserter: the status and the
\* entries mem_->Add(sequence_, type, key, value) received, in order
InsertInto(rep) ==
  LET it == Iterate(rep)
  IN [status |-> it.status,
      mem |-> [i \in 1 .. Len(it.calls) |->
                 [sequence |-> Sequence(rep) + (i - 1),
                  type |-> it.calls[i].type,
                  key |-> it.calls[i].key,
                  value |-> it.calls[i].value]]]

\* WriteBatchInternal::SetContents
SetContents(contents) == contents

AppendKeepingCount(dst, src) == dst \o RemovePrefix(src, kHeader)

\* WriteBatchInternal::Append
AppendBatch(dst, src) ==
  SetCount(dst, Count(dst) + Count(src)) \o RemovePrefix(src, kHeader)

(***************************************************************************)
(* A client of two write batches: it builds them with Put, Delete,         *)
(* SetSequence and Append, replaces the contents of one by damaged bytes   *)
(* (as contents read back from a damaged log would be), and runs Iterate   *)
(* and InsertInto.  wb.ops[b] lists the records put into batch b since its *)
(* construction or last Clear, each with the index in rep_ of its tag.     *)
(***************************************************************************)
MaxOps == 3

LongValue == [i \in 1 .. 130 |-> 120]

\* Put("k1", "v1"), Put("k3", "v3"), Put("k2", "") and Put("k2", 130 bytes)
BatchPuts ==
  { <<<<107, 49>>, <<118, 49>>>>, <<<<107, 51>>, <<118, 51>>>>,
    <<<<107, 50>>, <<>>>>, <<<<107, 50>>, LongValue>> }

\* Delete("k1") and Delete("k2")
BatchDeletes == {<<107, 49>>, <<107, 50>>}

SequenceNumbers == {70000}

NoDamage == [kind |-> "none", batch |-> 0, record |-> 0]

Called(op, b, status, calls) ==
  [op |-> op, batch |-> b, status |-> status, calls |-> calls,
   before |-> IF op \in {"Append", "Iterate"} THEN wb.rep_ ELSE <<>>]

BatchInit ==
  /\ CacheIdle
  /\ LogIdle
  /\ tb = Idle
  /\ CompIdle
  /\ wb = [phase |-> "batch",
           rep_ |-> <<Clear, Clear>>,
           ops |-> <<<<>>, <<>>>>,
           damage |-> NoDamage,
           last |-> [op |-> "WriteBatch", batch |-> 0, status |-> "",
                     calls |-> <<>>, before |-> <<>>]]

BatchPut ==
  /\ wb.phase = "batch"
  /\ wb.damage = NoDamage
  /\ Len(wb.ops[1]) + Len(wb.ops[2]) < MaxOps
  /\ \E b \in 1 .. 2, put \in BatchPuts :
       wb' = [wb EXCEPT
                !.rep_[b] = Put(@, put[1], put[2]),
                !.ops[b] = Append(@, [type |-> kTypeValue, key |-> put[1],
                                      value |-> put[2], at |-> Len(wb.rep_[b]) + 1]),
                !.last = Called("Put", b, "", <<>>)]
  /\ UNCHANGED <<cacheVars, logVars, tb, compVars>>

BatchDelete ==
  /\ wb.phase = "batch"
  /\ wb.damage = NoDamage
  /\ Len(wb.ops[1]) + Len(wb.ops[2]) < MaxOps
  /\ \E b \in 1 .. 2, key \in BatchDeletes :
       wb' = [wb EXCEPT
                !.rep_[b] = Delete(@, key),
                !.ops[b] = Append(@, [type |-> kTypeDeletion, key |-> key,
                                      value |-> <<>>, at |-> Len(wb.rep_[b]) + 1]),
                !.last = Called("Delete", b, "", <<>>)]
  /\ UNCHANGED <<cacheVars, logVars, tb, compVars>>

BatchClear ==
  /\ wb.phase = "batch"
  /\ \E b \in 1 .. 2 :
       /\ wb.damage.batch \in {0, b}
       /\ wb' = [wb EXCEPT
                   !.rep_[b] = Clear,
                   !.ops[b] = <<>>,
                   !.damage = NoDamage,
                   !.last = Called("Clear", b, "", <<>>)]
  /\ UNCHANGED <<cacheVars, logVars, tb, compVars>>

\* The first batch is given its sequence number, as a batch about to be
\* written is; the second keeps the sequence 0 of its construction
BatchSetSequence ==
  /\ wb.phase = "batch"
  /\ wb.damage = NoDamage
  /\ \E seq \in SequenceNumbers :
       wb' = [wb EXCEPT
                !.rep_[1] = SetSequence(@, seq),
                !.last = Called("SetSequence", 1, "", <<>>)]
  /\ UNCHANGED <<cacheVars, logVars, tb, compVars>>

\* WriteBatchInternal::Append(dst, src) on the two batches
BatchAppend ==
  /\ wb.phase = "batch"
  /\ wb.damage = NoDamage
  /\ Len(wb.ops[1]) + Len(wb.ops[2]) <= MaxOps
  /\ \E dst \in 1 .. 2 :
       LET src == 3 - dst
           shift == Len(wb.rep_[dst]) - kHeader
       IN wb' = [wb EXCEPT
                   !.rep_[dst] = AppendBatch(@, wb.rep_[src]),
                   !.ops[dst] = @ \o [i \in 1 .. Len(wb.ops[src]) |->
                                        [wb.ops[src][i] EXCEPT !.at = @ + shift]],
                   !.last = Called("Append", dst, "", <<>>)]
  /\ UNCHANGED <<cacheVars, logVars, tb, compVars>>

BatchIterate ==
  /\ wb.phase = "batch"
  /\ \E b \in 1 .. 2 :
       LET it == Iterate(wb.rep_[b])
       IN /\ wb.damage.batch \in {0, b}
          /\ wb' = [wb EXCEPT !.last = Called("Iterate", b, it.status, it.calls)]
  /\ UNCHANGED <<cacheVars, logVars, tb, compVars>>

BatchInsertInto ==
  /\ wb.phase = "batch"
  /\ \E b \in 1 .. 2 :
       LET ins == InsertInto(wb.rep_[b])
       IN /\ wb.damage.batch \in {0, b}
          /\ wb' = [wb EXCEPT !.last = Called("InsertInto", b, ins.status, ins.mem)]
  /\ UNCHANGED <<cacheVars, logVars, tb, compVars>>

\* SetContents of the first batch with its own bytes damaged in one of the ways
\* Iterate tests for: fewer bytes than the header, a tag that is neither
\* kTypeValue nor kTypeDeletion, a key length that runs past the end, has
\* five bytes with bit 7 set or ends the contents with bit 7 set, a last
\* record cut short, a wrong count.
BatchDamage ==
  /\ wb.phase = "batch"
  /\ wb.damage = NoDamage
  /\ \E b \in {1} :
       LET rep == wb.rep_[b]
           ops == wb.ops[b]
           Damaged(kind, i, contents) ==
             wb' = [wb EXCEPT
                      !.rep_[b] = SetContents(contents),
                      !.damage = [kind |-> kind, batch |-> b, record |-> i],
                      !.last = Called("SetContents", b, "", <<>>)]
       IN \/ \E n \in {0, 8, kHeader - 1} :
               Damaged("short", 0, SubSeq(rep, 1, n))
          \/ \E i \in 1 .. Len(ops), tag \in {kTypeValue + 1, 255} :
               Damaged("tag", i, [rep EXCEPT ![ops[i].at] = tag])
          \/ \E i \in 1 .. Len(ops) :
               LET past == Len(rep) - ops[i].at
               IN \/ /\ past < 128
                     /\ Damaged("length", i, [rep EXCEPT ![ops[i].at + 1] = past])
                  \/ Damaged("length", i,
                       SubSeq(rep, 1, ops[i].at) \o <<255, 255, 255, 255, 255>>
                         \o RemovePrefix(rep, ops[i].at + 1))
                  \/ Damaged("length", i, SubSeq(rep, 1, ops[i].at) \o <<255>>)
          \/ /\ ops # <<>>
             /\ \E n \in {ops[Len(ops)].at + d : d \in 0 .. 2} \cup {Len(rep) - 1} :
                  Damaged("cut", Len(ops), SubSeq(rep, 1, n))
          \/ \E n \in (0 .. MaxOps + 1) \ {Count(rep)} :
               Damaged("count", 0, SetCount(rep, n))
  /\ UNCHANGED <<cacheVars, logVars, tb, compVars>>

BatchNext ==
  \/ BatchPut
  \/ BatchDelete
  \/ BatchClear
  \/ BatchSetSequence
  \/ BatchAppend
  \/ BatchIterate
  \/ BatchInsertInto
  \/ BatchDamage

SpecBatch == BatchInit /\ [][BatchNext]_vars

(***************************************************************************)
(* util/comparator.cc: the bytewise comparator.                            *)
(***************************************************************************)
\* BytewiseComparatorImpl::Compare, Slice::compare: -1, 0 or 1
RECURSIVE Compare(_, _)
Compare(a, b) ==
  IF a = <<>> \/ b = <<>>
  THEN IF Len(a) < Len(b) THEN -1 ELSE IF Len(a) > Len(b) THEN 1 ELSE 0
  ELSE IF a[1] < b[1]
  THEN -1
  ELSE IF a[1] > b[1]
  THEN 1
  ELSE Compare(Tail(a), Tail(b))

\* Mutant of FindShortestSeparator: the byte is incremented whenever it is
\* below 0xff and below limit's.
FindShortestSeparatorToLimit(start, limit) ==
  LET min_length == Min(Len(start), Len(limit))
      common == {i \in 0 .. min_length : \A j \in 1 .. i : start[j] = limit[j]}
      diff_index == CHOOSE i \in common : \A k \in common : k <= i
  IN IF diff_index >= min_length
     THEN start
     ELSE IF start[diff_index + 1] < 255
             /\ start[diff_index + 1] < limit[diff_index + 1]
     THEN SubSeq(start, 1, diff_index) \o <<start[diff_index + 1] + 1>>
     ELSE start

\* BytewiseComparatorImpl::FindShortestSeparator: the new *start
FindShortestSeparator(start, limit) ==
  LET min_length == Min(Len(start), Len(limit))
      common == {i \in 0 .. min_length : \A j \in 1 .. i : start[j] = limit[j]}
      diff_index == CHOOSE i \in common : \A k \in common : k <= i
  IN IF diff_index >= min_length
     THEN start
     ELSE LET diff_byte == start[diff_index + 1]
          IN IF diff_byte < 255 /\ diff_byte + 1 < limit[diff_index + 1]
             THEN SubSeq(start, 1, diff_index) \o <<diff_byte + 1>>
             ELSE start

\* BytewiseComparatorImpl::FindShortSuccessor: the new *key
FindShortSuccessor(key) ==
  LET below == {i \in 1 .. Len(key) : key[i] # 255}
  IN IF below = {}
     THEN key
     ELSE LET first == CHOOSE i \in below : \A k \in below : i <= k
          IN SubSeq(key, 1, first - 1) \o <<key[first] + 1>>

(***************************************************************************)
(* table/table_builder.cc.  A block is the list of the entries added to    *)
(* its BlockBuilder; what the builder appends to the file are the block    *)
(* contents, the trailers and the footer, each with its size in bytes.     *)
(* The file is the list of what was appended, the number of Append and     *)
(* Flush calls made on it, and its fault: the call number fail_at fails    *)
(* (none when 0), a failing Append leaving part of its data when partial.  *)
(***************************************************************************)
kBlockTrailerSize == 5
kEncodedLength == 48
kNoCompression == 0
kSnappyCompression == 1

OK == [code |-> "OK", op |-> 0]

\* PosixWritableFile::Append
WritableAppend(file, data) ==
  LET n == file.ops + 1
  IN IF n = file.fail_at
     THEN [file |-> [file EXCEPT
                       !.ops = n,
                       !.contents = IF file.partial
                                    THEN Append(@, [data |-> data, complete |-> FALSE])
                                    ELSE @],
           status |-> [code |-> "IOError", op |-> n]]
     ELSE [file |-> [file EXCEPT
                       !.ops = n,
                       !.contents = Append(@, [data |-> data, complete |-> TRUE])],
           status |-> OK]

\* PosixWritableFile::Flush
WritableFlush(file) ==
  LET n == file.ops + 1
  IN [file |-> [file EXCEPT !.ops = n],
      status |-> IF n = file.fail_at THEN [code |-> "IOError", op |-> n] ELSE OK]

\* BlockBuilder::CurrentSizeEstimate: three length bytes and the key and
\* value of each entry (a handle takes two bytes), four bytes for each
\* restart point and four for their number
CurrentSizeEstimate(block, block_restart_interval) ==
  LET n == Len(block.entries)
      size[i \in 0 .. n] ==
        IF i = 0
        THEN 0
        ELSE size[i - 1] + 3 + Len(block.entries[i].key)
               + (IF block.block = "data" THEN Len(block.entries[i].value) ELSE 2)
      restarts == IF n = 0 THEN 1 ELSE 1 + ((n - 1) \div block_restart_interval)
  IN size[n] + (4 * restarts) + 4

\* TableBuilder::Rep::Rep, with options.filter_policy NULL; snappy is what
\* port::Snappy_Compress does: whether it succeeds and the bytes it saves
NewTableBuilder(options, file, snappy) ==
  [options |-> options,
   file |-> file,
   snappy |-> snappy,
   offset |-> 0,
   status |-> OK,
   data_block |-> <<>>,
   index_block |-> <<>>,
   last_key |-> <<>>,
   num_entries |-> 0,
   closed |-> FALSE,
   pending_index_entry |-> FALSE,
   pending_handle |-> [offset |-> -1, size |-> -1]]

TableOkAlways(r) == TRUE

\* TableBuilder::ok: status().ok()
TableOk(r) == r.status = OK

WriteRawBlockCountingPayload(r, block_contents, type) ==
  LET contents == WritableAppend(r.file, block_contents)
      trailer == WritableAppend(contents.file,
                   [what |-> "trailer", size |-> kBlockTrailerSize,
                    type |-> type, crc_of |-> block_contents])
  IN [handle |-> [offset |-> r.offset, size |-> block_contents.size],
      r |-> IF contents.status # OK
            THEN [r EXCEPT !.file = contents.file, !.status = contents.status]
            ELSE IF trailer.status # OK
            THEN [r EXCEPT !.file = trailer.file, !.status = trailer.status]
            ELSE [r EXCEPT !.file = trailer.file,
                           !.status = OK,
                           !.offset = @ + block_contents.size]]

\* TableBuilder::WriteRawBlock: the builder after it and *handle
WriteRawBlock(r, block_contents, type) ==
  LET contents == WritableAppend(r.file, block_contents)
      trailer == WritableAppend(contents.file,
                   [what |-> "trailer", size |-> kBlockTrailerSize,
                    type |-> type, crc_of |-> block_contents])
  IN [handle |-> [offset |-> r.offset, size |-> block_contents.size],
      r |-> IF contents.status # OK
            THEN [r EXCEPT !.file = contents.file, !.status = contents.status]
            ELSE IF trailer.status # OK
            THEN [r EXCEPT !.file = trailer.file, !.status = trailer.status]
            ELSE [r EXCEPT !.file = trailer.file,
                           !.status = OK,
                           !.offset = @ + block_contents.size + kBlockTrailerSize]]

\* compressed->size() after port::Snappy_Compress of raw_size bytes
SnappyCompressedSize(snappy, raw_size) ==
  IF raw_size > snappy.saved THEN raw_size - snappy.saved ELSE 1

\* TableBuilder::WriteBlock of a block with its restart interval; the
\* block->Reset() at its end is done by the caller
WriteBlock(r, block, block_restart_interval) ==
  LET raw_size == CurrentSizeEstimate(block, block_restart_interval)
      compressed_size == SnappyCompressedSize(r.snappy, raw_size)
      raw == [what |-> "block", block |-> block.block, entries |-> block.entries,
              size |-> raw_size, compressed |-> FALSE]
  IN IF /\ r.options.compression = kSnappyCompression
        /\ r.snappy.ok
        /\ compressed_size < raw_size - (raw_size \div 8)
     THEN WriteRawBlock(r, [raw EXCEPT !.size = compressed_size, !.compressed = TRUE],
                        kSnappyCompression)
     ELSE WriteRawBlock(r, raw, kNoCompression)

\* TableBuilder::Flush
Flush(r) ==
  IF ~TableOk(r)
  THEN r
  ELSE IF r.data_block = <<>>
  THEN r
  ELSE LET block == WriteBlock(r, [block |-> "data", entries |-> r.data_block],
                               r.options.block_restart_interval)
           r1 == [block.r EXCEPT !.data_block = <<>>,
                                   !.pending_handle = block.handle]
           flushed == WritableFlush(r1.file)
       IN IF TableOk(r1)
          THEN [r1 EXCEPT !.pending_index_entry = TRUE,
                          !.file = flushed.file,
                          !.status = flushed.status]
          ELSE r1

\* TableBuilder::Add.  Line 188 is "r->num_entries++;" followed by a comment
\* that holds the text "r->data_block.Add(key, value);": nothing is added to
\* data_block.
Add(r, key, value) ==
  IF ~TableOk(r)
  THEN r
  ELSE LET r1 == IF r.pending_index_entry
                 THEN [r EXCEPT
                         !.last_key = FindShortestSeparator(@, key),
                         !.index_block =
                            Append(@, [key |-> FindShortestSeparator(r.last_key, key),
                                       value |-> r.pending_handle]),
                         !.pending_index_entry = FALSE]
                 ELSE r
           r2 == [r1 EXCEPT !.last_key = key, !.num_entries = @ + 1]
           estimated_block_size ==
             CurrentSizeEstimate([block |-> "data", entries |-> r2.data_block],
                                 r2.options.block_restart_interval)
       IN IF estimated_block_size >= r2.options.block_size THEN Flush(r2) ELSE r2

\* The end of TableBuilder::Finish: the footer
FinishFooter(r, metaindex_block_handle, index_block_handle) ==
  IF ~TableOk(r)
  THEN r
  ELSE LET footer == WritableAppend(r.file,
                       [what |-> "footer", size |-> kEncodedLength,
                        metaindex_handle |-> metaindex_block_handle,
                        index_handle |-> index_block_handle])
       IN [r EXCEPT !.file = footer.file,
                    !.status = footer.status,
                    !.offset = IF footer.status = OK THEN @ + kEncodedLength ELSE @]

\* TableBuilder::Finish from the index block on
FinishIndexBlock(r, metaindex_block_handle) ==
  IF ~TableOk(r)
  THEN r
  ELSE LET pending ==
             IF r.pending_index_entry
             THEN [r EXCEPT
                     !.last_key = FindShortSuccessor(@),
                     !.index_block =
                        Append(@, [key |-> FindShortSuccessor(r.last_key),
                                   value |-> r.pending_handle]),
                     !.pending_index_entry = FALSE]
             ELSE r
           index == WriteBlock(pending,
                      [block |-> "index", entries |-> pending.index_block], 1)
       IN FinishFooter([index.r EXCEPT !.index_block = <<>>],
                       metaindex_block_handle, index.handle)

\* TableBuilder::Finish from the meta-index block on (no filter block)
FinishMetaIndexBlock(r) ==
  IF ~TableOk(r)
  THEN r
  ELSE LET metaindex == WriteBlock(r, [block |-> "metaindex", entries |-> <<>>],
                                   r.options.block_restart_interval)
       IN FinishIndexBlock(metaindex.r, metaindex.handle)

\* TableBuilder::Finish: the builder after it; it returns r.status
Finish(r) == FinishMetaIndexBlock([Flush(r) EXCEPT !.closed = TRUE])

\* Status::InvalidArgument
InvalidArgument == [code |-> "InvalidArgument", op |-> 0]

\* TableBuilder::ChangeOptions: the builder after it and the status
\* returned.  index_block_options is options with a restart interval of 1,
\* which is what WriteBlock is given for the index block.
ChangeOptions(r, options) ==
  IF options.comparator # r.options.comparator
  THEN [r |-> r, status |-> InvalidArgument]
  ELSE [r |-> [r EXCEPT !.options = options], status |-> OK]

\* TableBuilder::Abandon
Abandon(r) == [r EXCEPT !.closed = TRUE]

\* TableBuilder::FileSize
FileSize(r) == r.offset

(***************************************************************************)
(* A client of the table builder: Add with increasing keys, Flush, then    *)
(* Finish or Abandon.  tb.added lists the pairs given to Add.              *)
(***************************************************************************)
\* The comparators of the client: BytewiseComparator() and another one
BytewiseComparator == "leveldb.BytewiseComparator"

Comparators == {BytewiseComparator, "other"}

MaxFileOps == 5

\* The most bytes Snappy saves on a block.
MaxSaved == 2

TableKeys == {<<97>>, <<97, 98>>, <<99>>}

TableValues == {<<>>, <<120, 121>>}

BlockSizes == {8, 4096}

TableInit ==
  /\ CacheIdle
  /\ LogIdle
  /\ arena = Idle
  /\ wb = Idle
  /\ CompIdle
  /\ \E block_size \in BlockSizes,
        compression \in {kNoCompression, kSnappyCompression},
        snappy_ok \in BOOLEAN,
        saved \in 0 .. MaxSaved,
        fail_at \in 0 .. MaxFileOps,
        partial \in BOOLEAN :
       /\ compression = kNoCompression => snappy_ok
       /\ fail_at = 0 => ~partial
       /\ tb = [phase |-> "table",
                rep_ |-> NewTableBuilder(
                           [block_size |-> block_size,
                            block_restart_interval |-> 16,
                            compression |-> compression,
                            comparator |-> BytewiseComparator],
                           [contents |-> <<>>, ops |-> 0,
                            fail_at |-> fail_at, partial |-> partial],
                           [ok |-> snappy_ok, saved |-> saved]),
                added |-> <<>>,
                last |-> "TableBuilder",
                returned |-> OK,
                asked |-> <<>>,
                before |-> <<>>]

TableAdd ==
  /\ tb.phase = "table"
  /\ ~tb.rep_.closed
  /\ \E key \in TableKeys, value \in TableValues :
       /\ tb.rep_.num_entries > 0 => Compare(key, tb.rep_.last_key) > 0
       /\ tb' = [tb EXCEPT
                   !.rep_ = Add(@, key, value),
                   !.added = Append(@, [key |-> key, value |-> value]),
                   !.last = "Add"]
  /\ UNCHANGED <<cacheVars, logVars, wb, compVars>>

TableFlush ==
  /\ tb.phase = "table"
  /\ ~tb.rep_.closed
  /\ tb' = [tb EXCEPT !.rep_ = Flush(@), !.last = "Flush"]
  /\ UNCHANGED <<cacheVars, logVars, wb, compVars>>

TableFinish ==
  /\ tb.phase = "table"
  /\ ~tb.rep_.closed
  /\ LET r == Finish(tb.rep_)
     IN tb' = [tb EXCEPT !.rep_ = r, !.last = "Finish", !.returned = r.status]
  /\ UNCHANGED <<cacheVars, logVars, wb, compVars>>

TableAbandon ==
  /\ tb.phase = "table"
  /\ ~tb.rep_.closed
  /\ tb' = [tb EXCEPT !.rep_ = Abandon(@), !.last = "Abandon"]
  /\ UNCHANGED <<cacheVars, logVars, wb, compVars>>

\* builder.ChangeOptions(options) during the build, with options that
\* differ from the builder's in the block size, the comparator, or nothing
TableChangeOptions ==
  /\ tb.phase = "table"
  /\ ~tb.rep_.closed
  /\ \E block_size \in BlockSizes, comparator \in Comparators :
       LET options == [tb.rep_.options EXCEPT !.block_size = block_size,
                                               !.comparator = comparator]
           changed(res) == [tb EXCEPT !.rep_ = res.r,
                                      !.last = "ChangeOptions",
                                      !.returned = res.status,
                                      !.asked = options,
                                      !.before = tb.rep_.options]
       IN tb' = changed(ChangeOptions(tb.rep_, options))
  /\ UNCHANGED <<cacheVars, logVars, wb, compVars>>

TableNext ==
  \/ TableAdd
  \/ TableFlush
  \/ TableChangeOptions
  \/ TableFinish
  \/ TableAbandon

SpecTable == TableInit /\ [][TableNext]_vars

(***************************************************************************)
(* db/table_cache.cc: the table cache, a ShardedLRUCache from the eight    *)
(* bytes of a file number to the open file and its table.  The cache is    *)
(* the one of the cache variables, taken as the record                     *)
(* [shard_, heap, deleted]; the file names, the environment's files and    *)
(* the tables are not part of the sources.                                 *)
(***************************************************************************)
\* The shard s of the cache c with the heap, and c after work on shard s
InShard(c, s) == [sh |-> c.shard_[s], heap |-> c.heap, deleted |-> c.deleted]

WithShard(c, s, st) ==
  [shard_ |-> [c.shard_ EXCEPT ![s] = st.sh], heap |-> st.heap,
   deleted |-> st.deleted]

\* ShardedLRUCache::Lookup on the cache c
ShardedLookup(c, key) ==
  LET Done(s, r) == [c |-> WithShard(c, s, r.st), result |-> r.result]
  IN Done(Shard(HashSlice(key)),
          LRULookup(InShard(c, Shard(HashSlice(key))), key, HashSlice(key)))

\* ShardedLRUCache::Insert on the cache c
ShardedInsert(c, key, value, charge) ==
  LET Done(s, r) == [c |-> WithShard(c, s, r.st), result |-> r.result]
  IN Done(Shard(HashSlice(key)),
          LRUInsert(InShard(c, Shard(HashSlice(key))), key, HashSlice(key),
                    value, charge))

\* ShardedLRUCache::Release on the cache c
ShardedRelease(c, handle) ==
  WithShard(c, Shard(c.heap[handle].hash),
            LRURelease(InShard(c, Shard(c.heap[handle].hash)), handle))

\* ShardedLRUCache::Erase on the cache c
ShardedErase(c, key) ==
  WithShard(c, Shard(HashSlice(key)),
            LRUErase(InShard(c, Shard(HashSlice(key))), key, HashSlice(key)))

\* TableFileName and SSTTableFileName: the two names of a table file
TableFileName(number) == [number |-> number, suffix |-> "ldb"]

SSTTableFileName(number) == [number |-> number, suffix |-> "sst"]

\* Env::NewRandomAccessFile: env.files are the names that can be opened now
NewRandomAccessFile(env, fname) ==
  IF fname \in env.files
  THEN [s |-> OK, file |-> fname]
  ELSE [s |-> [code |-> "IOError", op |-> 0], file |-> NULL]

\* Table::Open: env.tables are the files whose contents are a table
TableOpen(env, file) ==
  IF file \in env.tables
  THEN [s |-> OK, table |-> file.number]
  ELSE [s |-> [code |-> "Corruption", op |-> 0], table |-> NULL]

\* The TableAndFile of a cache entry: the table's file number and, as the
\* unit, 1 for a file opened under its new name, 2 under its old one
TableAndFile(file, table) ==
  (10 * table) + (IF file.suffix = "ldb" THEN 1 ELSE 2)

\* Mutant of FindTable: the failure is cached, under a table that is NULL.
FindTableCachingErrors(c, file_number, env) ==
  LET fname == TableFileName(file_number)
      Cached(s, ins) ==
        [s |-> s, handle |-> ins.result, c |-> ins.c, tried |-> <<fname>>]
      Found(look) ==
        IF look.result # NULL
        THEN [s |-> OK, handle |-> look.result, c |-> look.c, tried |-> <<>>]
        ELSE IF fname \in env.tables
        THEN Cached(OK, ShardedInsert(look.c, EncodeFixed64(file_number),
                                      TableAndFile(fname, file_number), 1))
        ELSE Cached([code |-> "IOError", op |-> 0],
                    ShardedInsert(look.c, EncodeFixed64(file_number), NULL, 1))
  IN Found(ShardedLookup(c, EncodeFixed64(file_number)))

\* TableCache::FindTable: the status, *handle, the cache afterwards and the
\* names given to NewRandomAccessFile
FindTable(c, file_number, env) ==
  LET fname == TableFileName(file_number)
      old_fname == SSTTableFileName(file_number)
      \* the else branch of if (!s.ok()), at line 93
      Inserted(s, ins, tried) ==
        [s |-> s, handle |-> ins.result, c |-> ins.c, tried |-> tried]
      \* from Table::Open on
      Opened(look, file, open, tried) ==
        IF open.s # OK
        THEN [s |-> open.s, handle |-> NULL, c |-> look.c, tried |-> tried]
        ELSE Inserted(open.s,
                      ShardedInsert(look.c, EncodeFixed64(file_number),
                                    TableAndFile(file, open.table), 1),
                      tried)
      \* from if (s.ok()) at line 83 on
      Named(look, s, file, tried) ==
        IF s # OK
        THEN [s |-> s, handle |-> NULL, c |-> look.c, tried |-> tried]
        ELSE Opened(look, file, TableOpen(env, file), tried)
      \* from if (!s.ok()) at line 76 on
      Missed(look, first, second) ==
        IF first.s = OK
        THEN Named(look, first.s, first.file, <<fname>>)
        ELSE Named(look, IF second.s = OK THEN OK ELSE first.s, second.file,
                   <<fname, old_fname>>)
      Found(look) ==
        IF look.result # NULL
        THEN [s |-> OK, handle |-> look.result, c |-> look.c, tried |-> <<>>]
        ELSE Missed(look, NewRandomAccessFile(env, fname),
                    NewRandomAccessFile(env, old_fname))
  IN Found(ShardedLookup(c, EncodeFixed64(file_number)))

\* An iterator of the table cache: its status, the table it reads and the
\* handle its cleanup function releases (NULL for an error iterator)
NewErrorIterator(s) == [status |-> s, table |-> NULL, cleanup |-> NULL]

\* TableCache::NewIterator: the iterator and the cache afterwards
NewIterator(c, file_number, env) ==
  LET Made(find) ==
        IF find.s # OK
        THEN [result |-> NewErrorIterator(find.s), c |-> find.c,
              find |-> find, released |-> <<>>]
        ELSE [result |-> [status |-> OK,
                          table |-> find.c.heap[find.handle].value \div 10,
                          cleanup |-> find.handle],
              c |-> find.c, find |-> find, released |-> <<>>]
  IN Made(FindTable(c, file_number, env))

\* UnrefEntry, the cleanup function of a table iterator, run by ~Iterator
UnrefEntry(c, h) == ShardedRelease(c, h)

\* Mutant of Get: the handle is kept.
GetKeepingHandle(c, file_number, env, got) ==
  LET Got(find) ==
        [s |-> IF find.s = OK THEN got ELSE find.s, c |-> find.c,
         find |-> find, released |-> <<>>]
  IN Got(FindTable(c, file_number, env))

\* TableCache::Get: the status, the cache afterwards and the handles
\* released; got is the status of Table::InternalGet
Get(c, file_number, env, got) ==
  LET Got(find) ==
        IF find.s = OK
        THEN [s |-> got, c |-> ShardedRelease(find.c, find.handle),
              find |-> find, released |-> <<find.handle>>]
        ELSE [s |-> find.s, c |-> find.c, find |-> find, released |-> <<>>]
  IN Got(FindTable(c, file_number, env))

\* TableCache::Evict
Evict(c, file_number) == ShardedErase(c, EncodeFixed64(file_number))

(***************************************************************************)
(* The table cache's client: any sequence of Get, NewIterator, Evict and   *)
(* the destruction of an iterator, within the bounds; at each call the     *)
(* environment opens any of the files and any of them holds a table.       *)
(***************************************************************************)
\* the most calls of the client
MaxTableCacheOps == 4
\* the most iterators alive at a time
MaxIterators == 2

FileNumbers == {1, 2}

\* NewLRUCache(entries): one entry or two to a shard
TableCacheEntries == {16, 32}

\* What the environment can be at a call on file_number
Envs(file_number) ==
  LET names == {TableFileName(file_number), SSTTableFileName(file_number)}
  IN { env \in [files : SUBSET names, tables : SUBSET names] :
         env.tables \subseteq env.files }

\* The statuses of Table::InternalGet
GetStatuses == {OK, [code |-> "Corruption", op |-> 1]}

TheCache == [shard_ |-> shard_, heap |-> heap, deleted |-> deleted]

\* The client's record after a call: the handles acquired and released are
\* counted per entry of the heap.
TableCacheCalled(op, file_number, s, find, released, c, iterators) ==
  LET n == Len(c.heap)
      Was(counts, h) == IF h <= Len(counts) THEN counts[h] ELSE 0
  IN [phase |-> "tablecache",
      iterators |-> iterators,
      acquired |-> [h \in 1 .. n |->
                      Was(tc.acquired, h)
                        + (IF find.handle = h THEN 1 ELSE 0)],
      released |-> [h \in 1 .. n |->
                      Was(tc.released, h)
                        + (IF released = <<h>> THEN 1 ELSE 0)],
      n |-> tc.n + 1,
      last |-> [op |-> op, file_number |-> file_number, s |-> s,
                find |-> find.s, handle |-> find.handle,
                tried |-> find.tried]]

NoFind == [s |-> OK, handle |-> NULL, tried |-> <<>>]

TableCacheInit ==
  /\ hashOf \in { [k \in {EncodeFixed64(f) : f \in FileNumbers} |->
                     MkHash(1, 1 + (m * DecodeFixed64(k)))] : m \in {0, 1} }
  /\ \E entries \in TableCacheEntries : shard_ = NewShardedLRUCache(entries)
  /\ heap = <<>>
  /\ held = <<>>
  /\ deleted = <<>>
  /\ useOrder = <<>>
  /\ lastOp = NoOp
  /\ script = FreeScript
  /\ LogIdle
  /\ arena = Idle
  /\ wb = Idle
  /\ tb = Idle
  /\ sep = Idle
  /\ limiter = Idle
  /\ locks = Idle
  /\ bg = Idle
  /\ tc = [phase |-> "tablecache", iterators |-> <<>>, acquired |-> <<>>,
           released |-> <<>>, n |-> 0,
           last |-> [op |-> "TableCache", file_number |-> 0, s |-> OK,
                     find |-> OK, handle |-> NULL, tried |-> <<>>]]

TableCacheUnchanged ==
  UNCHANGED <<hashOf, held, useOrder, lastOp, script, logVars, wb, tb, sep,
              limiter, locks, bg, arena>>

TableCacheGet ==
  /\ tc.phase = "tablecache"
  /\ tc.n < MaxTableCacheOps
  /\ \E file_number \in FileNumbers, got \in GetStatuses :
       \E env \in Envs(file_number) :
         LET Returned(r) ==
               /\ shard_' = r.c.shard_
               /\ heap' = r.c.heap
               /\ deleted' = r.c.deleted
               /\ tc' = TableCacheCalled("Get", file_number, r.s, r.find,
                                         r.released, r.c, tc.iterators)
         IN Returned(Get(TheCache, file_number, env, got))
  /\ TableCacheUnchanged

TableCacheNewIterator ==
  /\ tc.phase = "tablecache"
  /\ tc.n < MaxTableCacheOps
  /\ Len(tc.iterators) < MaxIterators
  /\ \E file_number \in FileNumbers :
       \E env \in Envs(file_number) :
         LET Returned(r) ==
               /\ shard_' = r.c.shard_
               /\ heap' = r.c.heap
               /\ deleted' = r.c.deleted
               /\ tc' = TableCacheCalled("NewIterator", file_number,
                                         r.result.status, r.find, r.released,
                                         r.c, Append(tc.iterators, r.result))
         IN Returned(NewIterator(TheCache, file_number, env))
  /\ TableCacheUnchanged

\* ~Iterator: the cleanup function runs if one was registered
TableCacheDeleteIterator ==
  /\ tc.phase = "tablecache"
  /\ tc.n < MaxTableCacheOps
  /\ \E i \in 1 .. Len(tc.iterators) :
       LET Destroyed(h, c) ==
             /\ shard_' = c.shard_
             /\ heap' = c.heap
             /\ deleted' = c.deleted
             /\ tc' = TableCacheCalled("~Iterator", 0, OK, NoFind,
                                       IF h # NULL THEN <<h>> ELSE <<>>, c,
                                       SubSeq(tc.iterators, 1, i - 1)
                                         \o SubSeq(tc.iterators, i + 1,
                                                   Len(tc.iterators)))
       IN IF tc.iterators[i].cleanup # NULL
          THEN Destroyed(tc.iterators[i].cleanup,
                         UnrefEntry(TheCache, tc.iterators[i].cleanup))
          ELSE Destroyed(NULL, TheCache)
  /\ TableCacheUnchanged

TableCacheEvict ==
  /\ tc.phase = "tablecache"
  /\ tc.n < MaxTableCacheOps
  /\ \E file_number \in FileNumbers :
       LET Evicted(c) ==
             /\ shard_' = c.shard_
             /\ heap' = c.heap
             /\ deleted' = c.deleted
             /\ tc' = TableCacheCalled("Evict", file_number, OK, NoFind, <<>>,
                                       c, tc.iterators)
       IN Evicted(Evict(TheCache, file_number))
  /\ TableCacheUnchanged

TableCacheNext ==
  \/ TableCacheGet
  \/ TableCacheNewIterator
  \/ TableCacheDeleteIterator
  \/ TableCacheEvict

SpecTableCache == TableCacheInit /\ [][TableCacheNext]_vars

(***************************************************************************)
(* The table cache under threads: each thread calls Get, NewIterator or    *)
(* Evict, and destroys iterators.  A cache operation runs under the        *)
(* shard's mutex and is one step; FindTable's Lookup, its opening of the   *)
(* file and the table, and its Insert are three steps, with the other      *)
(* threads' steps in between.                                               *)
(***************************************************************************)
TableCacheThreads == 1 .. 2
\* the most calls the threads begin
MaxThreadCalls == 4

ThreadIdle ==
  [pc |-> "idle", call |-> "none", file_number |-> 0, file |-> NULL,
   table |-> NULL, handle |-> NULL, s |-> OK]

\* FindTable between its Lookup and its Insert: the status, the file and
\* the table; after a failure the file is deleted and nothing is left
OpenTable(file_number, env) ==
  LET fname == TableFileName(file_number)
      old_fname == SSTTableFileName(file_number)
      Opened(file, open) ==
        IF open.s # OK
        THEN [s |-> open.s, file |-> NULL, table |-> NULL]
        ELSE [s |-> OK, file |-> file, table |-> open.table]
      Named(s, file) ==
        IF s # OK
        THEN [s |-> s, file |-> NULL, table |-> NULL]
        ELSE Opened(file, TableOpen(env, file))
      Missed(first, second) ==
        IF first.s = OK
        THEN Named(first.s, first.file)
        ELSE Named(IF second.s = OK THEN OK ELSE first.s, second.file)
  IN Missed(NewRandomAccessFile(env, fname),
            NewRandomAccessFile(env, old_fname))

ThreadsInit ==
  /\ hashOf \in { [k \in {EncodeFixed64(f) : f \in FileNumbers} |->
                     MkHash(1, 1 + (m * DecodeFixed64(k)))] : m \in {0, 1} }
  /\ \E entries \in TableCacheEntries : shard_ = NewShardedLRUCache(entries)
  /\ heap = <<>>
  /\ held = <<>>
  /\ deleted = <<>>
  /\ useOrder = <<>>
  /\ lastOp = NoOp
  /\ script = FreeScript
  /\ LogIdle
  /\ arena = Idle
  /\ wb = Idle
  /\ tb = Idle
  /\ sep = Idle
  /\ limiter = Idle
  /\ locks = Idle
  /\ bg = Idle
  /\ tc = [phase |-> "threads",
           threads |-> [t \in TableCacheThreads |-> ThreadIdle],
           iterators |-> <<>>, n |-> 0]

\* The iterators alive and those that the calls under way will make
IteratorsDue ==
  Len(tc.iterators)
    + Cardinality({t \in TableCacheThreads :
                     tc.threads[t].call = "NewIterator"})

SetCache(c) ==
  /\ shard_' = c.shard_
  /\ heap' = c.heap
  /\ deleted' = c.deleted

\* The thread t returns from its call with the status s
Returns(t, s, iterators) ==
  [tc EXCEPT !.threads[t] = [ThreadIdle EXCEPT !.s = s],
             !.iterators = iterators]

\* Get or NewIterator begins: FindTable's cache_->Lookup(key)
ThreadLookup(t) ==
  /\ tc.phase = "threads"
  /\ tc.threads[t].pc = "idle"
  /\ tc.n < MaxThreadCalls
  /\ \E call \in {"Get", "NewIterator"}, file_number \in FileNumbers :
       /\ call = "NewIterator" => IteratorsDue < MaxIterators
       /\ LET Looked(look) ==
                /\ SetCache(look.c)
                /\ tc' = [tc EXCEPT
                            !.n = @ + 1,
                            !.threads[t] =
                              [ThreadIdle EXCEPT
                                 !.pc = IF look.result # NULL THEN "found"
                                        ELSE "open",
                                 !.call = call,
                                 !.file_number = file_number,
                                 !.handle = look.result]]
          IN Looked(ShardedLookup(TheCache, EncodeFixed64(file_number)))
  /\ TableCacheUnchanged

\* FindTable after a miss: the file and the table are opened; a failure
\* ends the call
ThreadOpen(t) ==
  /\ tc.phase = "threads"
  /\ tc.threads[t].pc = "open"
  /\ \E env \in Envs(tc.threads[t].file_number) :
       LET Opened(o) ==
             IF o.s = OK
             THEN tc' = [tc EXCEPT !.threads[t].pc = "insert",
                                   !.threads[t].file = o.file,
                                   !.threads[t].table = o.table]
             ELSE tc' = Returns(t, o.s,
                                IF tc.threads[t].call = "NewIterator"
                                THEN Append(tc.iterators,
                                            NewErrorIterator(o.s))
                                ELSE tc.iterators)
       IN Opened(OpenTable(tc.threads[t].file_number, env))
  /\ UNCHANGED <<shard_, heap, deleted>>
  /\ TableCacheUnchanged

\* FindTable's cache_->Insert(key, tf, 1, &DeleteEntry)
ThreadInsert(t) ==
  /\ tc.phase = "threads"
  /\ tc.threads[t].pc = "insert"
  /\ LET Inserted(ins) ==
           /\ SetCache(ins.c)
           /\ tc' = [tc EXCEPT !.threads[t].pc = "found",
                               !.threads[t].handle = ins.result]
     IN Inserted(ShardedInsert(TheCache,
                               EncodeFixed64(tc.threads[t].file_number),
                               TableAndFile(tc.threads[t].file,
                                            tc.threads[t].table), 1))
  /\ TableCacheUnchanged

\* Get after FindTable: InternalGet on the table, then Release
ThreadGet(t) ==
  /\ tc.phase = "threads"
  /\ tc.threads[t].pc = "found"
  /\ tc.threads[t].call = "Get"
  /\ \E got \in GetStatuses :
       /\ SetCache(ShardedRelease(TheCache, tc.threads[t].handle))
       /\ tc' = Returns(t, got, tc.iterators)
  /\ TableCacheUnchanged

\* NewIterator after FindTable: the iterator on the handle's table, with
\* UnrefEntry registered on the handle
ThreadNewIterator(t) ==
  /\ tc.phase = "threads"
  /\ tc.threads[t].pc = "found"
  /\ tc.threads[t].call = "NewIterator"
  /\ tc' = Returns(t, OK,
                   Append(tc.iterators,
                          [status |-> OK,
                           table |-> heap[tc.threads[t].handle].value \div 10,
                           cleanup |-> tc.threads[t].handle]))
  /\ UNCHANGED <<shard_, heap, deleted>>
  /\ TableCacheUnchanged

\* ~Iterator in a thread that is in no call
ThreadDeleteIterator(t) ==
  /\ tc.phase = "threads"
  /\ tc.threads[t].pc = "idle"
  /\ \E i \in 1 .. Len(tc.iterators) :
       /\ IF tc.iterators[i].cleanup # NULL
          THEN SetCache(UnrefEntry(TheCache, tc.iterators[i].cleanup))
          ELSE UNCHANGED <<shard_, heap, deleted>>
       /\ tc' = Returns(t, OK,
                        SubSeq(tc.iterators, 1, i - 1)
                          \o SubSeq(tc.iterators, i + 1, Len(tc.iterators)))
  /\ TableCacheUnchanged

\* TableCache::Evict
ThreadEvict(t) ==
  /\ tc.phase = "threads"
  /\ tc.threads[t].pc = "idle"
  /\ tc.n < MaxThreadCalls
  /\ \E file_number \in FileNumbers :
       /\ SetCache(Evict(TheCache, file_number))
       /\ tc' = [Returns(t, OK, tc.iterators) EXCEPT !.n = @ + 1]
  /\ TableCacheUnchanged

ThreadsNext ==
  \E t \in TableCacheThreads :
    \/ ThreadLookup(t)
    \/ ThreadOpen(t)
    \/ ThreadInsert(t)
    \/ ThreadGet(t)
    \/ ThreadNewIterator(t)
    \/ ThreadDeleteIterator(t)
    \/ ThreadEvict(t)

SpecTableCacheThreads == ThreadsInit /\ [][ThreadsNext]_vars

(***************************************************************************)
(* The comparator's client: FindShortestSeparator on any two strings of    *)
(* at most MaxStringLen bytes drawn from SeparatorBytes.                   *)
(***************************************************************************)
MaxStringLen == 3

SeparatorBytes == {0, 1, 3, 255}

SeparatorStrings ==
  UNION { [1 .. n -> SeparatorBytes] : n \in 0 .. MaxStringLen }

SeparatorInit ==
  /\ CacheIdle
  /\ LogIdle
  /\ arena = Idle
  /\ wb = Idle
  /\ tb = Idle
  /\ tc = Idle
  /\ limiter = Idle
  /\ locks = Idle
  /\ bg = Idle
  /\ \E start \in SeparatorStrings, limit \in SeparatorStrings :
       sep = [phase |-> "separator", start |-> start, limit |-> limit,
              called |-> FALSE, result |-> start]

SeparatorFind ==
  /\ sep.phase = "separator"
  /\ ~sep.called
  /\ sep' = [sep EXCEPT !.called = TRUE,
                        !.result = FindShortestSeparator(sep.start, sep.limit)]
  /\ UNCHANGED <<cacheVars, logVars, wb, tb, tc, limiter, locks, bg, arena>>

SeparatorNext == SeparatorFind

SpecSeparator == SeparatorInit /\ [][SeparatorNext]_vars

(***************************************************************************)
(* util/env_posix.cc, MmapLimiter: the number of mmap slots left, read     *)
(* without the mutex and written with it.  The limiter is                  *)
(* [allowed_, mu_], mu_ the thread that holds the mutex or 0.  A thread    *)
(* is at "idle" between calls, at "lock" before MutexLock, at "load"       *)
(* before the GetAllowed made with the mutex and at "store" before         *)
(* SetAllowed; x is its local variable x, slots the slots it acquired and  *)
(* has not released.                                                       *)
(***************************************************************************)
\* the 1000 slots of a 64-bit binary, scaled
kMmapLimit == 2

LimiterThreads == 1 .. 3

\* MmapLimiter::MmapLimiter
NewMmapLimiter(pointer_size) ==
  [allowed_ |-> IF pointer_size >= 8 THEN kMmapLimit ELSE 0, mu_ |-> 0]

\* MmapLimiter::GetAllowed
GetAllowed(l) == l.allowed_

\* MmapLimiter::SetAllowed
SetAllowed(l, v) == [l EXCEPT !.allowed_ = v]

\* Mutant of AcquireLocked: the slot is taken whatever x is.
AcquireLockedUnchecked(l, x) == [l |-> SetAllowed(l, x - 1), result |-> TRUE]

\* MmapLimiter::Acquire from the if (x <= 0) made with the mutex held
AcquireLocked(l, x) ==
  IF x <= 0
  THEN [l |-> l, result |-> FALSE]
  ELSE [l |-> SetAllowed(l, x - 1), result |-> TRUE]

LimiterInit ==
  /\ CacheIdle
  /\ LogIdle
  /\ arena = Idle
  /\ wb = Idle
  /\ tb = Idle
  /\ tc = Idle
  /\ sep = Idle
  /\ locks = Idle
  /\ bg = Idle
  /\ \E pointer_size \in {4, 8} :
       limiter = [phase |-> "limiter",
                  l |-> NewMmapLimiter(pointer_size),
                  limit |-> GetAllowed(NewMmapLimiter(pointer_size)),
                  threads |-> [t \in LimiterThreads |->
                                 [pc |-> "idle", call |-> "none", x |-> 0,
                                  slots |-> 0, result |-> FALSE]]]

LimiterUnchanged ==
  UNCHANGED <<cacheVars, logVars, wb, tb, tc, sep, locks, bg, arena>>

\* Acquire up to MutexLock: the GetAllowed made without the mutex
LimiterAcquire ==
  /\ limiter.phase = "limiter"
  /\ \E t \in LimiterThreads :
       /\ limiter.threads[t].pc = "idle"
       /\ limiter' =
            IF GetAllowed(limiter.l) <= 0
            THEN [limiter EXCEPT !.threads[t].call = "Acquire",
                                 !.threads[t].result = FALSE]
            ELSE [limiter EXCEPT !.threads[t].call = "Acquire",
                                 !.threads[t].pc = "lock"]
  /\ LimiterUnchanged

\* Release up to MutexLock, by a thread that has a slot
LimiterRelease ==
  /\ limiter.phase = "limiter"
  /\ \E t \in LimiterThreads :
       /\ limiter.threads[t].pc = "idle"
       /\ limiter.threads[t].slots > 0
       /\ limiter' = [limiter EXCEPT !.threads[t].call = "Release",
                                     !.threads[t].pc = "lock"]
  /\ LimiterUnchanged

\* MutexLock l(&mu_)
LimiterLock ==
  /\ limiter.phase = "limiter"
  /\ \E t \in LimiterThreads :
       /\ limiter.threads[t].pc = "lock"
       /\ limiter.l.mu_ = 0
       /\ limiter' = [limiter EXCEPT !.l.mu_ = t, !.threads[t].pc = "load"]
  /\ LimiterUnchanged

\* GetAllowed() with the mutex held
LimiterLoad ==
  /\ limiter.phase = "limiter"
  /\ \E t \in LimiterThreads :
       /\ limiter.threads[t].pc = "load"
       /\ limiter' = [limiter EXCEPT !.threads[t].x = GetAllowed(limiter.l),
                                     !.threads[t].pc = "store"]
  /\ LimiterUnchanged

\* The rest of Acquire, and ~MutexLock
LimiterAcquireStore ==
  /\ limiter.phase = "limiter"
  /\ \E t \in LimiterThreads :
       /\ limiter.threads[t].pc = "store"
       /\ limiter.threads[t].call = "Acquire"
       /\ LET Done(r) ==
                [limiter EXCEPT
                   !.l = [r.l EXCEPT !.mu_ = 0],
                   !.threads[t].pc = "idle",
                   !.threads[t].result = r.result,
                   !.threads[t].slots = IF r.result THEN @ + 1 ELSE @]
          IN limiter' = Done(AcquireLocked(limiter.l, limiter.threads[t].x))
  /\ LimiterUnchanged

\* The rest of Release: SetAllowed(GetAllowed() + 1), and ~MutexLock
LimiterReleaseStore ==
  /\ limiter.phase = "limiter"
  /\ \E t \in LimiterThreads :
       /\ limiter.threads[t].pc = "store"
       /\ limiter.threads[t].call = "Release"
       /\ limiter' =
            [limiter EXCEPT
               !.l = [SetAllowed(limiter.l, limiter.threads[t].x + 1)
                        EXCEPT !.mu_ = 0],
               !.threads[t].pc = "idle",
               !.threads[t].slots = @ - 1]
  /\ LimiterUnchanged

LimiterNext ==
  \/ LimiterAcquire
  \/ LimiterRelease
  \/ LimiterLock
  \/ LimiterLoad
  \/ LimiterAcquireStore
  \/ LimiterReleaseStore

SpecLimiter == LimiterInit /\ [][LimiterNext]_vars

(***************************************************************************)
(* util/env_posix.cc, PosixLockTable, LockFile and UnlockFile.  The        *)
(* kernel's side is the table of open descriptors and, for each file, who  *)
(* holds the fcntl lock on the whole of it: this process ("self"),         *)
(* another one ("other") or nobody ("free").  fcntl locks belong to the    *)
(* process and the file, not to the descriptor: F_SETLK by the process     *)
(* that holds the lock succeeds, and close on any descriptor of a file     *)
(* removes the process's locks on that file.  A thread is at "idle"        *)
(* between calls and otherwise before the call its pc names.               *)
(***************************************************************************)
LockNames == {"LOCK", "LOCK2"}

LockThreads == 1 .. 2

Descriptors == 3 .. 6

Closed == ""

\* open(fname, O_RDWR | O_CREAT, 0644): the lowest descriptor not in use,
\* or -1 when the file cannot be opened or no descriptor is left
PosixOpen(k, fname, fails) ==
  LET free == {d \in Descriptors : k.fds[d] = Closed}
      Lowest(fd) == [k |-> [k EXCEPT !.fds[fd] = fname], fd |-> fd]
  IN IF fails \/ free = {}
     THEN [k |-> k, fd |-> -1]
     ELSE Lowest(CHOOSE d \in free : \A e \in free : d <= e)

\* close(fd): the descriptor is free and the process's locks on its file
\* are removed
PosixClose(k, fd) ==
  [k EXCEPT !.fds[fd] = Closed,
            !.fcntl[k.fds[fd]] = IF @ = "self" THEN "free" ELSE @]

\* LockOrUnlock: fcntl(fd, F_SETLK) with F_WRLCK or F_UNLCK on the whole
\* file; -1 when another process holds a lock on it
LockOrUnlock(k, fd, lock) ==
  IF lock
  THEN IF k.fcntl[k.fds[fd]] = "other"
       THEN [k |-> k, result |-> -1]
       ELSE [k |-> [k EXCEPT !.fcntl[k.fds[fd]] = "self"], result |-> 0]
  ELSE [k |-> [k EXCEPT !.fcntl[k.fds[fd]] = IF @ = "self" THEN "free" ELSE @],
        result |-> 0]

\* PosixLockTable::Insert
LockTableInsert(locked_files_, fname) ==
  [locked_files_ |-> locked_files_ \cup {fname},
   result |-> fname \notin locked_files_]

\* PosixLockTable::Remove
LockTableRemove(locked_files_, fname) == locked_files_ \ {fname}

IOError == [code |-> "IOError", op |-> 0]

LockIdleThread ==
  [pc |-> "idle", call |-> "none", fname |-> Closed, fd |-> 0,
   result |-> OK, lock |-> NULL]

LockInit ==
  /\ CacheIdle
  /\ LogIdle
  /\ arena = Idle
  /\ wb = Idle
  /\ tb = Idle
  /\ tc = Idle
  /\ sep = Idle
  /\ limiter = Idle
  /\ bg = Idle
  /\ locks = [phase |-> "locks",
              locked_files_ |-> {},
              k |-> [fds |-> [d \in Descriptors |-> Closed],
                     fcntl |-> [n \in LockNames |-> "free"]],
              held |-> {},
              threads |-> [t \in LockThreads |-> LockIdleThread]]

LockUnchanged ==
  UNCHANGED <<cacheVars, logVars, wb, tb, tc, sep, limiter, bg, arena>>

\* LockFile up to open and if (fd < 0)
LockFileOpen ==
  /\ locks.phase = "locks"
  /\ \E t \in LockThreads, fname \in LockNames, fails \in BOOLEAN :
       /\ locks.threads[t].pc = "idle"
       /\ LET Opened(o) ==
                [locks EXCEPT
                   !.k = o.k,
                   !.threads[t] = [LockIdleThread EXCEPT
                                     !.pc = IF o.fd < 0 THEN "idle"
                                            ELSE "Insert",
                                     !.call = "LockFile",
                                     !.fname = fname,
                                     !.fd = o.fd,
                                     !.result = IF o.fd < 0 THEN IOError
                                                ELSE OK]]
          IN locks' = Opened(PosixOpen(locks.k, fname, fails))
  /\ LockUnchanged

\* else if (!locks_.Insert(fname))
LockFileInsert ==
  /\ locks.phase = "locks"
  /\ \E t \in LockThreads :
       /\ locks.threads[t].pc = "Insert"
       /\ LET Inserted(i) ==
                [locks EXCEPT
                   !.locked_files_ = i.locked_files_,
                   !.threads[t].pc = IF i.result THEN "LockOrUnlock"
                                     ELSE "close held"]
          IN locks' = Inserted(LockTableInsert(locks.locked_files_,
                                               locks.threads[t].fname))
  /\ LockUnchanged

\* close(fd) and the IOError "already held by process"
LockFileCloseHeld ==
  /\ locks.phase = "locks"
  /\ \E t \in LockThreads :
       /\ locks.threads[t].pc = "close held"
       /\ locks' = [locks EXCEPT
                      !.k = PosixClose(locks.k, locks.threads[t].fd),
                      !.threads[t].pc = "idle",
                      !.threads[t].result = IOError]
  /\ LockUnchanged

\* else if (LockOrUnlock(fd, true) == -1), and the else branch that makes
\* the PosixFileLock
LockFileLock ==
  /\ locks.phase = "locks"
  /\ \E t \in LockThreads :
       /\ locks.threads[t].pc = "LockOrUnlock"
       /\ LET my_lock == [fd_ |-> locks.threads[t].fd,
                          name_ |-> locks.threads[t].fname]
              Locked(l) ==
                IF l.result = -1
                THEN [locks EXCEPT !.threads[t].pc = "close failed",
                                   !.threads[t].result = IOError]
                ELSE [locks EXCEPT !.k = l.k,
                                   !.held = @ \cup {my_lock},
                                   !.threads[t].pc = "idle",
                                   !.threads[t].result = OK,
                                   !.threads[t].lock = my_lock]
          IN locks' = Locked(LockOrUnlock(locks.k, locks.threads[t].fd, TRUE))
  /\ LockUnchanged

\* close(fd) after a failed LockOrUnlock
LockFileCloseFailed ==
  /\ locks.phase = "locks"
  /\ \E t \in LockThreads :
       /\ locks.threads[t].pc = "close failed"
       /\ locks' = [locks EXCEPT
                      !.k = PosixClose(locks.k, locks.threads[t].fd),
                      !.threads[t].pc = "Remove failed"]
  /\ LockUnchanged

\* locks_.Remove(fname) after a failed LockOrUnlock
LockFileRemoveFailed ==
  /\ locks.phase = "locks"
  /\ \E t \in LockThreads :
       /\ locks.threads[t].pc = "Remove failed"
       /\ locks' = [locks EXCEPT
                      !.locked_files_ =
                        LockTableRemove(@, locks.threads[t].fname),
                      !.threads[t].pc = "idle"]
  /\ LockUnchanged

\* UnlockFile on a lock that LockFile returned, up to LockOrUnlock(false)
UnlockFileUnlock ==
  /\ locks.phase = "locks"
  /\ \E t \in LockThreads, my_lock \in locks.held :
       /\ locks.threads[t].pc = "idle"
       /\ locks' = [locks EXCEPT
                      !.k = LockOrUnlock(locks.k, my_lock.fd_, FALSE).k,
                      !.held = @ \ {my_lock},
                      !.threads[t] = [LockIdleThread EXCEPT
                                        !.pc = "Remove",
                                        !.call = "UnlockFile",
                                        !.fname = my_lock.name_,
                                        !.fd = my_lock.fd_]]
  /\ LockUnchanged

\* locks_.Remove(my_lock->name_)
UnlockFileRemove ==
  /\ locks.phase = "locks"
  /\ \E t \in LockThreads :
       /\ locks.threads[t].pc = "Remove"
       /\ locks' = [locks EXCEPT
                      !.locked_files_ =
                        LockTableRemove(@, locks.threads[t].fname),
                      !.threads[t].pc = "close"]
  /\ LockUnchanged

\* close(my_lock->fd_) and delete my_lock
UnlockFileClose ==
  /\ locks.phase = "locks"
  /\ \E t \in LockThreads :
       /\ locks.threads[t].pc = "close"
       /\ locks' = [locks EXCEPT
                      !.k = PosixClose(locks.k, locks.threads[t].fd),
                      !.threads[t].pc = "idle"]
  /\ LockUnchanged

\* Another process locks or unlocks a file that this process has not locked
OtherProcess ==
  /\ locks.phase = "locks"
  /\ \E n \in LockNames :
       /\ locks.k.fcntl[n] # "self"
       /\ locks' = [locks EXCEPT
                      !.k.fcntl[n] = IF @ = "free" THEN "other" ELSE "free"]
  /\ LockUnchanged

LockNext ==
  \/ LockFileOpen
  \/ LockFileInsert
  \/ LockFileCloseHeld
  \/ LockFileLock
  \/ LockFileCloseFailed
  \/ LockFileRemoveFailed
  \/ UnlockFileUnlock
  \/ UnlockFileRemove
  \/ UnlockFileClose
  \/ OtherProcess

SpecLock == LockInit /\ [][LockNext]_vars

(***************************************************************************)
(* util/env_posix.cc, PosixEnv::Schedule and PosixEnv::BGThread.  The      *)
(* environment is [mu_, started_bgthread_, queue_, created, waiting]:      *)
(* mu_ the thread that holds the mutex or 0, created the callers whose     *)
(* Schedule made a pthread_create, waiting whether the background thread   *)
(* is blocked in pthread_cond_wait and has not been signalled.  A task is  *)
(* the number that stands for its function and arg.                        *)
(***************************************************************************)
\* the most Schedule calls
MaxTasks == 3

ScheduleThreads == 1 .. 2

\* the background thread, as a holder of mu_
BGThreadId == 9

\* PosixEnv::PosixEnv
NewPosixEnv ==
  [mu_ |-> 0, started_bgthread_ |-> FALSE, queue_ |-> <<>>, created |-> <<>>,
   waiting |-> FALSE]

\* Mutant of ScheduleLocked: a background thread is created by every call.
ScheduleLockedAlwaysCreating(e, t, function) ==
  [e EXCEPT !.started_bgthread_ = TRUE,
            !.created = Append(@, t),
            !.waiting = IF e.queue_ = <<>> THEN FALSE ELSE @,
            !.queue_ = Append(@, function)]

\* Mutant of ScheduleLocked: the condition is never signalled.
ScheduleLockedWithoutSignal(e, t, function) ==
  [e EXCEPT !.started_bgthread_ = TRUE,
            !.created = IF ~e.started_bgthread_ THEN Append(@, t) ELSE @,
            !.queue_ = Append(@, function)]

\* PosixEnv::Schedule between pthread_mutex_lock and pthread_mutex_unlock,
\* called by thread t
ScheduleLocked(e, t, function) ==
  [e EXCEPT !.started_bgthread_ = TRUE,
            !.created = IF ~e.started_bgthread_ THEN Append(@, t) ELSE @,
            !.waiting = IF e.queue_ = <<>> THEN FALSE ELSE @,
            !.queue_ = Append(@, function)]

BGInit ==
  /\ CacheIdle
  /\ LogIdle
  /\ arena = Idle
  /\ wb = Idle
  /\ tb = Idle
  /\ tc = Idle
  /\ sep = Idle
  /\ limiter = Idle
  /\ locks = Idle
  /\ bg = [phase |-> "bg",
           e |-> NewPosixEnv,
           pc |-> "none",
           item |-> 0,
           executed |-> <<>>,
           enqueued |-> <<>>,
           n |-> 0,
           callers |-> [t \in ScheduleThreads |->
                          [pc |-> "idle", function |-> 0]]]

BGUnchanged ==
  UNCHANGED <<cacheVars, logVars, wb, tb, tc, sep, limiter, locks, arena>>

\* A thread calls Schedule with a new task
ScheduleCall ==
  /\ bg.phase = "bg"
  /\ bg.n < MaxTasks
  /\ \E t \in ScheduleThreads :
       /\ bg.callers[t].pc = "idle"
       /\ bg' = [bg EXCEPT !.n = @ + 1,
                           !.callers[t] = [pc |-> "lock", function |-> bg.n + 1]]
  /\ BGUnchanged

\* pthread_mutex_lock(&mu_) in Schedule
ScheduleLock ==
  /\ bg.phase = "bg"
  /\ \E t \in ScheduleThreads :
       /\ bg.callers[t].pc = "lock"
       /\ bg.e.mu_ = 0
       /\ bg' = [bg EXCEPT !.e.mu_ = t, !.callers[t].pc = "locked"]
  /\ BGUnchanged

\* The rest of Schedule, pthread_mutex_unlock included.  A thread that
\* pthread_create made starts at the head of BGThread.
ScheduleUnlock ==
  /\ bg.phase = "bg"
  /\ \E t \in ScheduleThreads :
       /\ bg.callers[t].pc = "locked"
       /\ LET Unlocked(e) ==
                [bg EXCEPT
                   !.e = [e EXCEPT !.mu_ = 0],
                   !.pc = IF Len(e.created) > Len(bg.e.created) THEN "lock"
                          ELSE @,
                   !.enqueued = Append(@, [function |-> bg.callers[t].function,
                                           by |-> t]),
                   !.callers[t].pc = "idle"]
          IN bg' = Unlocked(ScheduleLocked(bg.e, t, bg.callers[t].function))
  /\ BGUnchanged

\* pthread_mutex_lock(&mu_) in BGThread
BGLock ==
  /\ bg.phase = "bg"
  /\ bg.pc = "lock"
  /\ bg.e.mu_ = 0
  /\ bg' = [bg EXCEPT !.e.mu_ = BGThreadId, !.pc = "check"]
  /\ BGUnchanged

\* while (queue_.empty()) pthread_cond_wait: the mutex is released and the
\* thread blocks
BGWait ==
  /\ bg.phase = "bg"
  /\ bg.pc = "check"
  /\ bg.e.queue_ = <<>>
  /\ bg' = [bg EXCEPT !.e.mu_ = 0, !.e.waiting = TRUE, !.pc = "wait"]
  /\ BGUnchanged

\* pthread_cond_wait returns, signalled or not, with the mutex held again
BGWake ==
  /\ bg.phase = "bg"
  /\ bg.pc = "wait"
  /\ bg.e.mu_ = 0
  /\ bg' = [bg EXCEPT !.e.mu_ = BGThreadId, !.e.waiting = FALSE,
                      !.pc = "check"]
  /\ BGUnchanged

\* The front of the queue is taken and the mutex unlocked
BGTake ==
  /\ bg.phase = "bg"
  /\ bg.pc = "check"
  /\ bg.e.queue_ # <<>>
  /\ bg' = [bg EXCEPT !.item = Head(bg.e.queue_),
                      !.e.queue_ = Tail(@),
                      !.e.mu_ = 0,
                      !.pc = "run"]
  /\ BGUnchanged

\* (*function)(arg)
BGRun ==
  /\ bg.phase = "bg"
  /\ bg.pc = "run"
  /\ bg' = [bg EXCEPT !.executed = Append(@, bg.item), !.item = 0,
                      !.pc = "lock"]
  /\ BGUnchanged

BGNext ==
  \/ ScheduleCall
  \/ ScheduleLock
  \/ ScheduleUnlock
  \/ BGLock
  \/ BGWait
  \/ BGWake
  \/ BGTake
  \/ BGRun

SpecBG == BGInit /\ [][BGNext]_vars

(***************************************************************************)
(* The background thread under fair scheduling.  pthread_cond_wait         *)
(* returns only after a pthread_cond_signal, the case in which a lost      *)
(* wakeup would leave the thread blocked, and the task being run may call  *)
(* Schedule itself.  A thread that is in Schedule or in BGThread takes its *)
(* next step at some time when that step stays possible; no thread has to  *)
(* call Schedule.                                                          *)
(***************************************************************************)
BGFairInit ==
  /\ CacheIdle
  /\ LogIdle
  /\ arena = Idle
  /\ wb = Idle
  /\ tb = Idle
  /\ tc = Idle
  /\ sep = Idle
  /\ limiter = Idle
  /\ locks = Idle
  /\ bg = [phase |-> "bg",
           e |-> NewPosixEnv,
           pc |-> "none",
           item |-> 0,
           executed |-> <<>>,
           enqueued |-> <<>>,
           n |-> 0,
           callers |-> [t \in ScheduleThreads \cup {BGThreadId} |->
                          [pc |-> "idle", function |-> 0]]]

\* pthread_cond_wait returns after a signal, with the mutex held again
BGWakeSignalled ==
  /\ ~bg.e.waiting
  /\ BGWake

\* The task being run calls Schedule with a new task
BGTaskCall ==
  /\ bg.phase = "bg"
  /\ bg.pc = "run"
  /\ bg.n < MaxTasks
  /\ bg' = [bg EXCEPT !.n = @ + 1,
                      !.pc = "tasklock",
                      !.callers[BGThreadId] =
                        [pc |-> "lock", function |-> bg.n + 1]]
  /\ BGUnchanged

\* pthread_mutex_lock(&mu_) in the task's Schedule
BGTaskLock ==
  /\ bg.phase = "bg"
  /\ bg.pc = "tasklock"
  /\ bg.e.mu_ = 0
  /\ bg' = [bg EXCEPT !.e.mu_ = BGThreadId,
                      !.pc = "tasklocked",
                      !.callers[BGThreadId].pc = "locked"]
  /\ BGUnchanged

\* The rest of the task's Schedule; the task goes on
BGTaskUnlock ==
  /\ bg.phase = "bg"
  /\ bg.pc = "tasklocked"
  /\ LET Unlocked(e) ==
           [bg EXCEPT
              !.e = [e EXCEPT !.mu_ = 0],
              !.pc = "run",
              !.enqueued =
                Append(@, [function |-> bg.callers[BGThreadId].function,
                           by |-> BGThreadId]),
              !.callers[BGThreadId].pc = "idle"]
     IN bg' = Unlocked(ScheduleLocked(bg.e, BGThreadId,
                                      bg.callers[BGThreadId].function))
  /\ BGUnchanged

\* A step of the background thread
BGThreadStep ==
  \/ BGLock
  \/ BGWait
  \/ BGWakeSignalled
  \/ BGTake
  \/ BGRun
  \/ BGTaskLock
  \/ BGTaskUnlock

\* A step of thread t inside Schedule
ScheduleStep(t) ==
  /\ bg.callers[t].pc # "idle"
  /\ \/ ScheduleLock
     \/ ScheduleUnlock
  /\ bg'.callers[t] # bg.callers[t]

BGFairNext ==
  \/ ScheduleCall
  \/ ScheduleLock
  \/ ScheduleUnlock
  \/ BGTaskCall
  \/ BGThreadStep

SpecBGFair ==
  /\ BGFairInit
  /\ [][BGFairNext]_vars
  /\ WF_vars(BGThreadStep)
  /\ \A t \in ScheduleThreads : WF_vars(ScheduleStep(t))

(***************************************************************************)
(* util/arena.h, util/arena.cc: the arena.  An address and a size_t are    *)
(* numbers below SizeModulus, and their arithmetic wraps there; the width  *)
(* is scaled down from the build's.  blocks_ holds, for each block, its    *)
(* address and its size.  new char[n] returns an address aligned for any   *)
(* object (a multiple of 16), beyond the blocks it returned before, or     *)
(* throws when no such array fits below the top of the address space.      *)
(***************************************************************************)
\* kBlockSize of arena.cc
kArenaBlockSize == 4096

\* size_t and uintptr_t wrap at SizeModulus
SizeModulus == 65536

\* Arena::Arena
NewArena ==
  [alloc_ptr_ |-> NULL, alloc_bytes_remaining_ |-> 0, blocks_ |-> <<>>,
   memory_usage_ |-> 0]

\* Arena::AllocateNewBlock with result the address that new char[] returned
AllocateNewBlock(a, block_bytes, result) ==
  [a EXCEPT !.blocks_ = Append(@, [base |-> result, size |-> block_bytes]),
            !.memory_usage_ = (@ + block_bytes + 8) % SizeModulus]

\* new char[block_bytes] throws: the array does not fit at fresh
BadAlloc(block_bytes, fresh) == fresh + block_bytes >= SizeModulus

Thrown(a) == [a |-> a, result |-> NULL, thrown |-> TRUE]

\* Arena::AllocateFallback; fresh is the address new char[] returns
AllocateFallback(a, bytes, fresh) ==
  IF bytes > kArenaBlockSize \div 4
  THEN IF BadAlloc(bytes, fresh) THEN Thrown(a)
       ELSE [a |-> AllocateNewBlock(a, bytes, fresh), result |-> fresh,
             thrown |-> FALSE]
  ELSE IF BadAlloc(kArenaBlockSize, fresh) THEN Thrown(a)
  ELSE LET Taken(b) ==
             [a |-> [b EXCEPT !.alloc_ptr_ = (fresh + bytes) % SizeModulus,
                              !.alloc_bytes_remaining_ = kArenaBlockSize - bytes],
              result |-> fresh, thrown |-> FALSE]
       IN Taken(AllocateNewBlock(a, kArenaBlockSize, fresh))

\* Arena::Allocate, for bytes > 0
Allocate(a, bytes, fresh) ==
  IF bytes <= a.alloc_bytes_remaining_
  THEN [a |-> [a EXCEPT !.alloc_ptr_ = (@ + bytes) % SizeModulus,
                        !.alloc_bytes_remaining_ = @ - bytes],
        result |-> a.alloc_ptr_, thrown |-> FALSE]
  ELSE AllocateFallback(a, bytes, fresh)

\* Arena::AllocateAligned: align is 8 where a pointer has 8 bytes or fewer
AllocateAligned(a, bytes, fresh) ==
  LET align == 8
      current_mod == a.alloc_ptr_ % align
      slop == IF current_mod = 0 THEN 0 ELSE align - current_mod
      needed == (bytes + slop) % SizeModulus
  IN IF needed <= a.alloc_bytes_remaining_
     THEN [a |-> [a EXCEPT !.alloc_ptr_ = (@ + needed) % SizeModulus,
                           !.alloc_bytes_remaining_ = @ - needed],
           result |-> (a.alloc_ptr_ + slop) % SizeModulus, thrown |-> FALSE]
     ELSE AllocateFallback(a, bytes, fresh)

(***************************************************************************)
(* The arena's client: any sequence of Allocate and AllocateAligned calls, *)
(* within the bounds, of sizes that stay in the current block, that need a *)
(* new block, that get a block of their own, and of nearly the whole       *)
(* address space.                                                          *)
(***************************************************************************)
\* the most calls of the client
MaxAllocs == 5

AllocSizes ==
  {1, 8, kArenaBlockSize \div 4, (kArenaBlockSize \div 4) + 1,
   SizeModulus - 7}

\* the room new char[] may leave after the block before
NewGaps == {0, 16}

\* Where the blocks returned so far end, rounded up to the alignment
RECURSIVE HeapTop(_)
HeapTop(blocks) ==
  IF blocks = <<>> THEN 16
  ELSE LET end == blocks[Len(blocks)].base + blocks[Len(blocks)].size
           up == ((end + 15) \div 16) * 16
           rest == HeapTop(SubSeq(blocks, 1, Len(blocks) - 1))
       IN IF up > rest THEN up ELSE rest

ArenaInit ==
  /\ CacheIdle
  /\ LogIdle
  /\ wb = Idle
  /\ tb = Idle
  /\ tc = Idle
  /\ sep = Idle
  /\ limiter = Idle
  /\ locks = Idle
  /\ bg = Idle
  /\ arena = [phase |-> "arena", a |-> NewArena, regions |-> <<>>, n |-> 0,
              last |-> [op |-> "Arena", bytes |-> 0, result |-> NULL,
                        thrown |-> FALSE, before |-> NewArena]]

ArenaUnchanged ==
  UNCHANGED <<cacheVars, logVars, wb, tb, tc, sep, limiter, locks, bg>>

\* The client's record after a call that returned r
ArenaCalled(op, bytes, r) ==
  [arena EXCEPT
     !.a = r.a,
     !.regions = IF r.thrown THEN @
                 ELSE Append(@, [ptr |-> r.result, bytes |-> bytes]),
     !.n = @ + 1,
     !.last = [op |-> op, bytes |-> bytes, result |-> r.result,
               thrown |-> r.thrown, before |-> arena.a]]

ArenaAllocate ==
  /\ arena.phase = "arena"
  /\ arena.n < MaxAllocs
  /\ \E bytes \in AllocSizes, gap \in NewGaps :
       arena' = ArenaCalled("Allocate", bytes,
                            Allocate(arena.a, bytes,
                                     HeapTop(arena.a.blocks_) + gap))
  /\ ArenaUnchanged

ArenaAllocateAligned ==
  /\ arena.phase = "arena"
  /\ arena.n < MaxAllocs
  /\ \E bytes \in AllocSizes, gap \in NewGaps :
       arena' = ArenaCalled("AllocateAligned", bytes,
                            AllocateAligned(arena.a, bytes,
                                            HeapTop(arena.a.blocks_) + gap))
  /\ ArenaUnchanged

ArenaNext ==
  \/ ArenaAllocate
  \/ ArenaAllocateAligned

SpecArena == ArenaInit /\ [][ArenaNext]_vars

(***************************************************************************)
(* Properties of the cache.                                                *)
(***************************************************************************)
Handles == 1 .. Len(heap)

\* e is resident in the hash table of some shard (a Lookup can find it).
InCache(e) ==
  \E s \in Shards :
    \E b \in 1 .. shard_[s].table_.length_ : InSeq(shard_[s].table_.list_[b], e)

\* e is linked on the list of some shard.
OnList(e) == \E s \in Shards : InSeq(shard_[s].lru_, e)

\* The entries a shard holds: those on its list and those in its hash table.
ShardEntries(s) ==
  { e \in Handles :
      \/ InSeq(shard_[s].lru_, e)
      \/ \E b \in 1 .. shard_[s].table_.length_ :
           InSeq(shard_[s].table_.list_[b], e) }

RECURSIVE SumCharge(_)
SumCharge(es) ==
  IF es = {} THEN 0
  ELSE LET e == CHOOSE x \in es : TRUE
       IN heap[e].charge + SumCharge(es \ {e})

\* C1: a Lookup(k) issued directly after Insert(k, v, c) returns a non-null
\* handle whose value is v.
C1_LookupAfterInsert ==
  [][(lastOp.op = "Insert" /\ lastOp'.op = "Lookup" /\ lastOp'.key = lastOp.key)
       => (lastOp'.result # NULL /\ lastOp'.value = lastOp.value)]_vars

\* C2: an entry for which the client holds an unreleased handle is never
\* removed from the cache by the capacity eviction of an Insert (an Insert of
\* the same key replaces it, which is not capacity eviction).
C2_PinnedNeverEvicted ==
  [][lastOp'.op = "Insert"
       => \A e \in Handles :
            (InCache(e) /\ held[e] > 0 /\ heap[e].key # lastOp'.key)
              => InCache(e)']_vars

\* C3: the deleter of an entry runs at most once, never while a handle on the
\* entry is unreleased, and it has run once the entry is out of the cache and
\* no handle on it is left.
C3_DeleterOnceWhenUnreferenced ==
  \A e \in Handles :
    /\ deleted[e] <= 1
    /\ (deleted[e] >= 1 => (held[e] = 0 /\ ~InCache(e)))
    /\ ((~InCache(e) /\ held[e] = 0) => deleted[e] = 1)

\* C3 witness: a Release of the last handle ran the deleter of an entry that
\* had left the cache while the handle was out.
C3_Witness ==
  /\ lastOp.op = "Release"
  /\ deleted[lastOp.result] = 1

\* C4: the usage counter of every shard is the sum of the charges of the
\* entries the shard holds.
C4_UsageIsSumOfHeld ==
  \A s \in Shards : shard_[s].usage_ = SumCharge(ShardEntries(s))

\* C5 as stated: after the S5 inserts the total usage is 10, keys 0..5 miss
\* and keys 6..15 are found with their values.
C5_UsageTenFirstSixMiss ==
  script.phase \in {"lookup", "looked", "done"}
    => /\ TotalCharge = 10
       /\ lastOp.op = "Lookup"
            => IF lastOp.key <= 5 THEN lastOp.result = NULL
               ELSE lastOp.result # NULL /\ lastOp.value = S5Value(lastOp.key)

\* The key is the last one of the scenario that was inserted in its shard.
S5LastOfShard(key) ==
  \A k \in S5KeySet : k > key => Shard(HashSlice(k)) # Shard(HashSlice(key))

\* C5 amended: every shard has capacity ceil(10 / 16) = 1, so after the S5
\* inserts the total usage is the number of shards the keys fall in, and a
\* Lookup finds exactly the keys inserted last in their shard, with their
\* values.
C5_UsageIsShardsHit ==
  script.phase \in {"lookup", "looked", "done"}
    => /\ TotalCharge = Cardinality({Shard(HashSlice(k)) : k \in S5KeySet})
       /\ \A s \in Shards : shard_[s].capacity_ = 1
       /\ lastOp.op = "Lookup"
            => IF S5LastOfShard(lastOp.key)
               THEN lastOp.result # NULL /\ lastOp.value = S5Value(lastOp.key)
               ELSE lastOp.result = NULL

\* C5 witness: the scenario has run to its end and more than S5Capacity
\* entries are cached.
C5_Witness ==
  /\ script.phase = "done"
  /\ TotalCharge > S5Capacity

PosIn(seq, e) == SeqIndex(seq, e)

C7_PruneRemovesUnpinnedOnly ==
  [][lastOp'.op = "Prune"
       => \A e \in Handles :
            LET t == shard_'[Shard(heap[e].hash)].table_
            IN /\ held[e] = 0
                 => /\ ~InCache(e)'
                    /\ deleted'[e] = 1
                    /\ InCache(e)
                         => TableLookup(heap', t, heap[e].key, heap[e].hash) = NULL
               /\ (held[e] > 0 /\ InCache(e))
                    => TableLookup(heap', t, heap[e].key, heap[e].hash) = e]_vars

\* C7 witness: after a Prune an entry with an outstanding handle is cached and
\* an entry without one has been deleted.
C7_Witness ==
  /\ lastOp.op = "Prune"
  /\ \E e \in Handles : InCache(e) /\ held[e] > 0
  /\ \E e \in Handles : ~InCache(e) /\ held[e] = 0 /\ deleted[e] = 1

\* The entries in the hash table of shard s
Resident(s) ==
  { e \in Handles :
      \E b \in 1 .. shard_[s].table_.length_ : InSeq(shard_[s].table_.list_[b], e) }

\* The sum of the charges of the entries of the set es
RECURSIVE ChargeOf(_)
ChargeOf(es) ==
  IF es = {}
  THEN 0
  ELSE LET e == CHOOSE x \in es : TRUE
       IN heap[e].charge + ChargeOf(es \ {e})

MoveToEnd(order, e) == Append(SeqRemove(order, e), e)

RecencyInit ==
  /\ hashOf \in HashFamily
  /\ \E capacity \in Capacities : shard_ = NewShardedLRUCache(capacity)
  /\ heap = <<>>
  /\ held = <<>>
  /\ deleted = <<>>
  /\ useOrder = <<>>
  /\ lastOp = NoOp
  /\ script = [phase |-> "recency", order |-> <<>>, released |-> {}]
  /\ LogIdle
  /\ arena = Idle
  /\ wb = Idle
  /\ tb = Idle
  /\ CompIdle

RecencyInsert ==
  /\ Len(heap) < MaxInserts
  /\ HandlesHeld < MaxHandles
  /\ \E key \in Keys, value \in Values, charge \in Charges :
       CacheInsert(key, value, charge)
  /\ script' = [script EXCEPT !.order = Append(@, Len(heap) + 1)]
  /\ UNCHANGED <<logVars, wb, tb, compVars>>

RecencyLookup ==
  /\ HandlesHeld < MaxHandles
  /\ \E key \in Keys : CacheLookup(key)
  /\ script' = IF lastOp'.result # NULL
               THEN [script EXCEPT !.order = MoveToEnd(@, lastOp'.result),
                                   !.released = @ \ {lastOp'.result}]
               ELSE script
  /\ UNCHANGED <<logVars, wb, tb, compVars>>

RecencyRelease ==
  /\ \E handle \in 1 .. Len(heap) :
       /\ CacheRelease(handle)
       /\ script' = IF held'[handle] = 0 /\ InCache(handle)
                    THEN [script EXCEPT !.order = MoveToEnd(@, handle),
                                        !.released = @ \cup {handle}]
                    ELSE script
  /\ UNCHANGED <<logVars, wb, tb, compVars>>

RecencyErase ==
  /\ \E key \in Keys : CacheErase(key)
  /\ UNCHANGED <<script, logVars, wb, tb, compVars>>

RecencyNext == RecencyInsert \/ RecencyLookup \/ RecencyRelease \/ RecencyErase

SpecRecency == RecencyInit /\ [][RecencyNext]_vars

\* x comes before e in the order
Earlier(order, x, e) ==
  \E i, j \in 1 .. Len(order) : i < j /\ order[i] = x /\ order[j] = e

\* C28: an entry that the Release of its last handle left in the cache is
\* from then on the most recently used: when the capacity eviction of a
\* later Insert removes it, every entry of its shard that was in the cache
\* without a handle and was last used, or left without a handle, before it
\* is removed as well.
C28_ReleasedEntryIsMostRecent ==
  [][(script.phase = "recency" /\ lastOp'.op = "Insert")
       => \A e \in script.released, x \in Handles :
            (/\ InCache(e)
             /\ ~InCache(e)'
             /\ heap[e].key # lastOp'.key
             /\ InCache(x)
             /\ held[x] = 0
             /\ Shard(heap[x].hash) = Shard(heap[e].hash)
             /\ Earlier(script.order, x, e))
              => ~InCache(x)']_vars

(***************************************************************************)
(* Properties of the log.                                                  *)
(***************************************************************************)
\* The records handed out by ReadRecord so far
ReturnedRecords == [i \in 1 .. Len(returned) |-> returned[i].record]

\* The payloads of the written records that satisfy Keep, in file order
PayloadsWhere(ws, Keep(_)) ==
  LET kept == SelectSeq(ws, Keep)
  IN [i \in 1 .. Len(kept) |-> kept[i].payload]

IsPrefix(s, t) == Len(s) <= Len(t) /\ s = SubSeq(t, 1, Len(s))

\* The calls of ReadRecord so far returned the first records of expected,
\* and all of them once ReadRecord has returned false.
ReadExactly(expected) ==
  /\ IsPrefix(ReturnedRecords, expected)
  /\ logPhase = "eof" => ReturnedRecords = expected

AllWritten(w) == TRUE

StartsAtOrAfterInitialOffset(w) == w.start >= reader.initial_offset_

CompletelyContained(w) == w.end <= Len(dest_)

\* C8: a reader started at offset 0 on the file the writer produced returns
\* exactly the payloads written, in order, each once, then false, and its
\* reporter is never called.
C8_RoundTripFromStart ==
  (reader.constructed /\ ~truncated /\ reader.initial_offset_ = 0)
    => /\ ReadExactly(PayloadsWhere(written, AllWritten))
       /\ reader.reported = <<>>

\* C8 witness: the end of a file of MaxRecords records was reached, one of
\* them empty, one in three fragments or more, and one whose first fragment
\* is a bare header in the last kHeaderSize bytes of a block.
C8_Witness ==
  /\ logPhase = "eof" /\ ~truncated /\ reader.initial_offset_ = 0
  /\ Len(returned) = MaxRecords
  /\ \E i \in 1 .. Len(written) : written[i].payload = <<>>
  /\ \E i \in 1 .. Len(written) :
       written[i].end - written[i].start >= Len(written[i].payload) + (3 * kHeaderSize)
  /\ \E i \in 1 .. Len(written) :
       /\ written[i].payload # <<>>
       /\ (written[i].start + kHeaderSize) % kBlockSize = 0

\* C9: a reader opened at initial_offset inside a well-formed log returns
\* exactly the records whose first fragment starts at or after
\* initial_offset, in file order, and every record it returns is one whose
\* first fragment starts at or after initial_offset.
C9_RecordsFromInitialOffset ==
  (reader.constructed /\ ~truncated)
    => /\ ReadExactly(PayloadsWhere(written, StartsAtOrAfterInitialOffset))
       /\ \A i \in 1 .. Len(returned) :
            \E j \in 1 .. Len(written) :
              /\ written[j].start >= reader.initial_offset_
              /\ written[j].payload = returned[i].record

\* C9 witness: the reader was opened inside a record that spans blocks, past
\* its first fragment; that record was skipped and two later records were
\* returned before the end of the file.
C9_Witness ==
  /\ logPhase = "eof" /\ ~truncated
  /\ Len(returned) = 2
  /\ \E j \in 1 .. Len(written) :
       /\ written[j].start + kBlockSize <= reader.initial_offset_
       /\ reader.initial_offset_ < written[j].end

\* C10: on a log that lost its tail, the reader returns exactly the records
\* that lie completely within what is left, then false, and its reporter is
\* never called.
C10_TruncatedTailIsEof ==
  (reader.constructed /\ truncated /\ reader.initial_offset_ = 0)
    => /\ ReadExactly(PayloadsWhere(written, CompletelyContained))
       /\ reader.reported = <<>>

\* C10 witness: the file was cut inside a record, after the first fragment
\* of that record and not at a block boundary; the records before it were
\* returned and then false.
C10_Witness ==
  /\ logPhase = "eof" /\ truncated
  /\ Len(returned) >= 1
  /\ Len(returned) < Len(written)
  /\ Len(dest_) % kBlockSize # 0
  /\ \E j \in 1 .. Len(written) :
       /\ written[j].start + kBlockSize < Len(dest_)
       /\ Len(dest_) < written[j].end

\* The reasons of the drops found in the contents of the file
CorruptionReasons ==
  {"bad record length", "checksum mismatch", "unknown record type",
   "partial record without end(1)", "partial record without end(2)",
   "missing start of fragmented record(1)", "missing start of fragmented record(2)",
   "error in middle of record"}

\* C11: whatever the contents of the file and the initial offset, the
\* reporter is called only for bytes given up at or after initial_offset: a
\* drop of bytes that start before initial_offset is not reported, and every
\* call of the reporter belongs to a drop.
C11_ReportsOnlyAtOrAfterInitialOffset ==
  reader.constructed
    => /\ \A i \in 1 .. Len(reader.dropped) :
            (reader.dropped[i].reason \in CorruptionReasons /\ reader.dropped[i].notified)
              => reader.dropped[i].from >= reader.initial_offset_
       /\ Len(reader.reported)
            = Cardinality({i \in 1 .. Len(reader.dropped) : reader.dropped[i].notified})

\* C11 witness: a reader opened past the start of a damaged file gave up
\* bytes before its initial offset without a report, and bytes after it with
\* a report.
C11_Witness ==
  /\ logPhase = "eof"
  /\ reader.initial_offset_ > 0
  /\ \E i \in 1 .. Len(reader.dropped) :
       /\ reader.dropped[i].reason \in CorruptionReasons
       /\ ~reader.dropped[i].notified
       /\ reader.dropped[i].from < reader.initial_offset_
  /\ \E i \in 1 .. Len(reader.dropped) :
       /\ reader.dropped[i].reason \in CorruptionReasons
       /\ reader.dropped[i].notified

\* C12: with a reporter, every drop of bytes at or after initial_offset for
\* a checksum mismatch, a length that exceeds the block before the end of
\* the file, an unknown record type, a failed Read or a failed Skip is
\* reported.
C12_DropsAreReported ==
  reader.constructed
    => \A i \in 1 .. Len(reader.dropped) :
         (/\ reader.dropped[i].reason \in
                {"checksum mismatch", "bad record length", "unknown record type",
                 "IOError"}
          /\ reader.dropped[i].from >= reader.initial_offset_)
           => reader.dropped[i].notified

\* C13: LastRecordOffset() after a ReadRecord that returned a record is the
\* file offset of the header of the first fragment of that record.
C13_LastRecordOffsetIsStart ==
  (reader.constructed /\ ~truncated /\ logPhase \in {"read", "eof"})
    => LET kept == SelectSeq(written, StartsAtOrAfterInitialOffset)
       IN \A i \in 1 .. Len(returned) :
            i <= Len(kept) => returned[i].offset = kept[i].start

\* A MIDDLE or LAST fragment met outside a record: in a well-formed log it
\* belongs to a record begun before the reader's first block or offset.
MissingStart ==
  {"missing start of fragmented record(1)",
   "missing start of fragmented record(2)"}

\* C29: a reader opened at an initial_offset > 0 of a well-formed log skips
\* the MIDDLE and LAST fragments of a record begun before initial_offset:
\* no record it returns is made of them and the reporter is not called for
\* them.
C29_ResyncSkipsSilently ==
  (reader.constructed /\ ~truncated /\ reader.initial_offset_ > 0)
    => /\ \A i \in 1 .. Len(reader.dropped) :
            reader.dropped[i].reason \in MissingStart
              => ~reader.dropped[i].notified
       /\ \A i \in 1 .. Len(reader.reported) :
            reader.reported[i].reason \notin MissingStart
       /\ \A i \in 1 .. Len(returned) :
            \E j \in 1 .. Len(written) :
              /\ written[j].start >= reader.initial_offset_
              /\ written[j].payload = returned[i].record

\* The fragments of the file as it is: the length, type and payload that
\* the seven bytes at offset p announce
FragmentLength(p) == dest_[p + 5] + (dest_[p + 6] * 256)

FragmentType(p) == dest_[p + 7]

FragmentPayload(p) ==
  SubSeq(dest_, p + kHeaderSize + 1, p + kHeaderSize + FragmentLength(p))

\* A header and its payload lie at offset p within one block and the file,
\* and the checksum is that of the type and the payload.
FragmentAt(p) ==
  /\ p + kHeaderSize <= Len(dest_)
  /\ (p % kBlockSize) + kHeaderSize + FragmentLength(p) <= kBlockSize
  /\ p + kHeaderSize + FragmentLength(p) <= Len(dest_)
  /\ Crc32cValue(SubSeq(dest_, p + kHeaderSize, p + kHeaderSize + FragmentLength(p)))
       = Unmask(DecodeFixed32(SubSeq(dest_, p + 1, p + 4)))

\* Where the fragment after the one at p starts: at its end, or at the next
\* block when fewer than kHeaderSize bytes of the block are left
Follows(p) ==
  LET end == p + kHeaderSize + FragmentLength(p)
  IN IF kBlockSize - (end % kBlockSize) < kHeaderSize
     THEN ((end \div kBlockSize) + 1) * kBlockSize
     ELSE end

\* p is reached from the start of its block by going from fragment to
\* fragment
RECURSIVE WalkReaches(_, _)
WalkReaches(q, p) ==
  \/ q = p
  \/ /\ q < p
     /\ FragmentAt(q)
     /\ WalkReaches(q + kHeaderSize + FragmentLength(q), p)

\* rest is made of the payloads of MIDDLE fragments and a LAST fragment
\* that follow one another from offset q on
RECURSIVE EndsRecord(_, _)
EndsRecord(q, rest) ==
  /\ FragmentAt(q)
  /\ IsPrefix(FragmentPayload(q), rest)
  /\ \/ FragmentType(q) = kLastType /\ FragmentPayload(q) = rest
     \/ /\ FragmentType(q) = kMiddleType
        /\ EndsRecord(Follows(q), RemovePrefix(rest, FragmentLength(q)))

\* record is the payload of a FULL fragment of the file, or of a FIRST
\* fragment and the fragments that end its record
RecordOfFile(record) ==
  \E p \in 0 .. Len(dest_) :
    /\ WalkReaches(p - (p % kBlockSize), p)
    /\ FragmentAt(p)
    /\ \/ FragmentType(p) = kFullType /\ FragmentPayload(p) = record
       \/ /\ FragmentType(p) = kFirstType
          /\ IsPrefix(FragmentPayload(p), record)
          /\ EndsRecord(Follows(p), RemovePrefix(record, FragmentLength(p)))

\* C30: whatever the file holds, damaged or not, and however its reads
\* fail, every record that a reader verifying checksums returns is the
\* payload of one FULL fragment of the file or of a FIRST fragment, the
\* MIDDLE fragments that follow it and the LAST fragment after them, each
\* starting where the one before ends; it is one of the records written,
\* so no fragments of two records are joined and no record starts with a
\* MIDDLE or a LAST fragment.
C30_ReturnedRecordsAreWholeRecords ==
  (reader.constructed /\ reader.checksum_)
    => \A i \in 1 .. Len(returned) :
         /\ RecordOfFile(returned[i].record)
         /\ \E j \in 1 .. Len(written) : written[j].payload = returned[i].record

\* A record of two fragments was returned from a file whose other record
\* was given up for its checksum.
C30_Witness ==
  /\ reader.constructed
  /\ reader.checksum_
  /\ logPhase = "eof"
  /\ Len(written) = 2
  /\ Len(returned) = 1
  /\ Len(returned[1].record) = MaxPayload
  /\ \E i \in 1 .. Len(reader.dropped) :
       reader.dropped[i].reason = "checksum mismatch"

\* A header and its payload lie at offset p within one block and the file,
\* and the reader takes them for a fragment: not a ZERO header of length 0,
\* and of the right checksum when the reader verifies it.
ReadableAt(p) ==
  /\ p + kHeaderSize <= Len(dest_)
  /\ (p % kBlockSize) + kHeaderSize + FragmentLength(p) <= kBlockSize
  /\ p + kHeaderSize + FragmentLength(p) <= Len(dest_)
  /\ ~(FragmentType(p) = kZeroType /\ FragmentLength(p) = 0)
  /\ reader.checksum_ => FragmentAt(p)

\* The reader, going through the block from offset q on, comes to offset p.
RECURSIVE ReaderReaches(_, _)
ReaderReaches(q, p) ==
  \/ q = p
  \/ /\ q < p
     /\ ReadableAt(q)
     /\ ReaderReaches(q + kHeaderSize + FragmentLength(q), p)

\* A reader whose file never fails has read the file to its end, and at
\* offset p it took a FIRST fragment, and after it a FULL or FIRST one.
RestartsAfter(p) ==
  /\ reader.constructed
  /\ logPhase = "eof"
  /\ reader.file_.bad_from < 0
  /\ ~reader.file_.skip_fails
  /\ p >= reader.initial_offset_
  /\ ReaderReaches(p - (p % kBlockSize), p)
  /\ ReadableAt(p)
  /\ FragmentType(p) = kFirstType
  /\ ReaderReaches(Follows(p) - (Follows(p) % kBlockSize), Follows(p))
  /\ ReadableAt(Follows(p))
  /\ FragmentType(Follows(p)) \in {kFullType, kFirstType}

\* The reporter was told of bytes given up as a partial record without end,
\* with the reason of the case of type.
PartialReported(bytes, type) ==
  \E i \in 1 .. Len(reader.reported) :
    /\ reader.reported[i].bytes = bytes
    /\ reader.reported[i].reason = IF type = kFullType
                                   THEN "partial record without end(1)"
                                   ELSE "partial record without end(2)"

\* The fragment at q started a record: a FULL one was returned, a FIRST one
\* that a LAST fragment follows was returned with it.
StartsRecord(q) ==
  /\ FragmentType(q) = kFullType
       => \E j \in 1 .. Len(returned) : returned[j].record = FragmentPayload(q)
  /\ (/\ FragmentType(q) = kFirstType
      /\ ReadableAt(Follows(q))
      /\ ReaderReaches(Follows(q) - (Follows(q) % kBlockSize), Follows(q))
      /\ FragmentType(Follows(q)) = kLastType)
       => \E j \in 1 .. Len(returned) :
            returned[j].record = FragmentPayload(q) \o FragmentPayload(Follows(q))

\* C31, as stated: whenever a FULL or FIRST fragment comes after a FIRST
\* fragment, the bytes of the FIRST fragment are reported to the reporter
\* as a partial record without end, no record is returned for them, and the
\* fragment that came starts a record.
C31_RestartIsReported ==
  \A p \in 0 .. Len(dest_) :
    RestartsAfter(p)
      => /\ PartialReported(FragmentLength(p), FragmentType(Follows(p)))
         /\ \A j \in 1 .. Len(returned) : returned[j].offset # p
         /\ StartsRecord(Follows(p))

\* C31, amended: whenever a FULL or FIRST fragment comes after a FIRST
\* fragment, no record is returned for the FIRST fragment and the fragment
\* that came starts a record; the bytes of the FIRST fragment are reported
\* as a partial record without end when there are any, and an empty FIRST
\* fragment is given up without a report.
C31_NonEmptyRestartIsReported ==
  \A p \in 0 .. Len(dest_) :
    RestartsAfter(p)
      => /\ FragmentLength(p) > 0
              => PartialReported(FragmentLength(p), FragmentType(Follows(p)))
         /\ FragmentLength(p) = 0 => reader.reported = <<>>
         /\ \A j \in 1 .. Len(returned) : returned[j].offset # p
         /\ StartsRecord(Follows(p))

\* A FULL fragment came after a FIRST fragment that held bytes, was
\* returned, and the bytes were reported.
C31_Witness ==
  \E p \in 0 .. Len(dest_) :
    /\ RestartsAfter(p)
    /\ FragmentLength(p) > 0
    /\ FragmentType(Follows(p)) = kFullType
    /\ Len(returned) = 1
    /\ Len(reader.reported) = 1

(***************************************************************************)
(* The log client with a zeroed fragment: the writer appends up to         *)
(* MaxRecords records; the bytes of one fragment, header and payload, are  *)
(* then zero, as in a region of the file that was allocated and never      *)
(* written; a reader is opened at the start of the file and ReadRecord is  *)
(* called until it returns false.                                          *)
(***************************************************************************)
\* The offsets of the fragments of the file the writer produced
FragmentStarts ==
  { p \in 0 .. Len(dest_) : WalkReaches(p - (p % kBlockSize), p) /\ FragmentAt(p) }

\* The bytes of the fragment at one offset read as zero.
LogZero ==
  /\ logPhase = "write"
  /\ \E p \in FragmentStarts :
       dest_' = [i \in 1 .. Len(dest_) |->
                   IF i > p /\ i <= p + kHeaderSize + FragmentLength(p)
                   THEN 0
                   ELSE dest_[i]]
  /\ logPhase' = "zeroed"
  /\ UNCHANGED <<cacheVars, wb, tb, compVars, block_offset_, written, truncated, reader, returned>>

\* log::Reader reader(file, &reporter, checksum, 0)
LogOpenZeroed ==
  /\ logPhase = "zeroed"
  /\ \E checksum \in BOOLEAN :
       reader' = NewReader(NewSequentialFile(-1, FALSE), TRUE, checksum, 0)
  /\ logPhase' = "read"
  /\ UNCHANGED <<cacheVars, wb, tb, compVars, dest_, block_offset_, written, truncated, returned>>

ZeroNext == LogAddRecord \/ LogZero \/ LogOpenZeroed \/ LogRead

SpecLogZero == LogInit /\ [][ZeroNext]_vars

\* The reader, going through the block of offset p, comes to a header of
\* type ZERO and length 0 at p.
ZeroRecordAt(p) ==
  /\ p + kHeaderSize <= Len(dest_)
  /\ (p % kBlockSize) + kHeaderSize <= kBlockSize
  /\ ReaderReaches(p - (p % kBlockSize), p)
  /\ FragmentType(p) = kZeroType
  /\ FragmentLength(p) = 0

\* The file was read to its end and the reader came to a ZERO record at p.
SkippedZeroAt(p) ==
  /\ reader.constructed
  /\ logPhase = "eof"
  /\ ZeroRecordAt(p)

\* The offset of the block after the one of offset p
NextBlock(p) == ((p \div kBlockSize) + 1) * kBlockSize

\* The records of ws that start after offset p
PayloadsAfter(ws, p) ==
  LET After(w) == w.start > p
  IN PayloadsWhere(ws, After)

\* The records of ws that end before offset p or start in a later block
\* than the one of p
PayloadsOutsideBlockFrom(ws, p) ==
  LET Outside(w) == w.end <= p \/ w.start >= NextBlock(p)
  IN PayloadsWhere(ws, Outside)

\* Every record of which the block of p holds bytes at or after p lies in
\* that block, from p on.
NoRecordCut(p) ==
  \A j \in 1 .. Len(written) :
    (written[j].start < NextBlock(p) /\ written[j].end > p)
      => (written[j].start >= p /\ written[j].end <= NextBlock(p))

\* C32, as stated: when the reader comes to a record of type ZERO the
\* reporter is not called and every record that starts after it in the
\* file, in its block or a later one, is returned.
C32_ZeroRecordIsSkipped ==
  \A p \in 0 .. Len(dest_) :
    SkippedZeroAt(p)
      => /\ reader.reported = <<>>
         /\ \E n \in 0 .. Len(returned) :
              SubSeq(ReturnedRecords, n + 1, Len(returned)) = PayloadsAfter(written, p)

\* C32, amended: when the reader comes to a record of type ZERO and length
\* 0 it gives up the rest of the block and reads on: the records returned
\* are those that end before the ZERO record and those that start in a
\* later block; the reporter is called for no other reason than a record
\* cut by the bytes given up, and not at all when none is cut.
C32_ZeroRecordDropsRestOfBlock ==
  \A p \in 0 .. Len(dest_) :
    SkippedZeroAt(p)
      => /\ ReturnedRecords = PayloadsOutsideBlockFrom(written, p)
         /\ \A i \in 1 .. Len(reader.reported) :
              reader.reported[i].reason \in
                MissingStart \cup {"error in middle of record"}
         /\ NoRecordCut(p) => reader.reported = <<>>

\* A ZERO record was followed by a record in its block, which was not
\* returned, and by a record in the next block, which was; the reporter
\* was not called.
C32_Witness ==
  \E p \in 0 .. Len(dest_) :
    /\ SkippedZeroAt(p)
    /\ \E j \in 1 .. Len(written) :
         written[j].start > p /\ written[j].end <= NextBlock(p)
    /\ \E j \in 1 .. Len(written) :
         /\ written[j].start >= NextBlock(p)
         /\ written[j].payload # <<>>
         /\ ReturnedRecords = <<written[j].payload>>
    /\ reader.reported = <<>>

\* The file as the writer left it: the records of written, appended from
\* record i on to dest
RECURSIVE FileOf(_, _, _)
FileOf(i, dest, block_offset) ==
  IF i > Len(written)
  THEN dest
  ELSE LET Next1(w) == FileOf(i + 1, w.dest, w.block_offset)
       IN Next1(WriterAddRecord(dest, block_offset, written[i].payload))

WrittenFile == FileOf(1, <<>>, 0)

\* The blocks of the file that hold a byte that is not the one written
DamagedBlocks ==
  LET original == WrittenFile
  IN { (i - 1) \div kBlockSize :
         i \in { k \in 1 .. Len(dest_) : dest_[k] # original[k] } }

\* The blocks that hold the fragments of a written record
BlocksOf(w) == (w.start \div kBlockSize) .. ((w.end - 1) \div kBlockSize)

\* A record the reader is to return: it starts at or after the initial
\* offset and no block that holds a fragment of it is damaged.
InCleanBlocks(w) ==
  /\ w.start >= reader.initial_offset_
  /\ BlocksOf(w) \cap DamagedBlocks = {}

\* s is t with some elements left out.
RECURSIVE IsSubSeq(_, _)
IsSubSeq(s, t) ==
  \/ s = <<>>
  \/ /\ t # <<>>
     /\ \/ Head(s) = Head(t) /\ IsSubSeq(Tail(s), Tail(t))
        \/ IsSubSeq(s, Tail(t))

\* C36: when a file with damaged bytes has been read to its end with
\* verification of checksums, every record whose fragments all lie in
\* undamaged blocks was returned, and these records were returned in file
\* order: the records lost have a fragment in a damaged block.
C36_RecordsOfCleanBlocksAreReturned ==
  (/\ reader.constructed
   /\ reader.checksum_
   /\ reader.file_.bad_from < 0
   /\ ~reader.file_.skip_fails
   /\ logPhase = "eof")
    => IsSubSeq(PayloadsWhere(written, InCleanBlocks), ReturnedRecords)

\* The first of two blocks is damaged, the record in it was lost and
\* reported, and the record of the second block was returned.
C36_Witness ==
  /\ reader.constructed
  /\ reader.checksum_
  /\ reader.initial_offset_ = 0
  /\ logPhase = "eof"
  /\ DamagedBlocks = {0}
  /\ Len(written) = 2
  /\ written[2].start = kBlockSize
  /\ written[2].payload # <<>>
  /\ ReturnedRecords = <<written[2].payload>>
  /\ reader.reported # <<>>

(***************************************************************************)
(* Properties of the write batch.                                          *)
(***************************************************************************)
\* The records of a list of operations, without their places in rep_
Records(ops) ==
  [i \in 1 .. Len(ops) |->
     [type |-> ops[i].type, key |-> ops[i].key, value |-> ops[i].value]]

Corruptions ==
  { "Corruption: malformed WriteBatch (too small)",
    "Corruption: bad WriteBatch Put",
    "Corruption: bad WriteBatch Delete",
    "Corruption: unknown WriteBatch tag",
    "Corruption: WriteBatch has wrong count" }

\* C14: in a batch built by Put and Delete since its construction or last
\* Clear the count of the header is the number of those calls, and Iterate
\* returns OK after one callback per call, in the order of the calls, with
\* the call's type, key and value, and leaves both batches as they were.
C14_IterateDeliversTheCalls ==
  (wb.phase = "batch" /\ wb.damage = NoDamage)
    => /\ \A b \in 1 .. 2 : Count(wb.rep_[b]) = Len(wb.ops[b])
       /\ wb.last.op = "Iterate"
            => /\ wb.last.status = "OK"
               /\ wb.last.calls = Records(wb.ops[wb.last.batch])
               /\ wb.rep_ = wb.last.before

C14_Witness ==
  /\ wb.phase = "batch"
  /\ wb.damage = NoDamage
  /\ wb.last.op = "Iterate"
  /\ Len(wb.last.calls) = MaxOps
  /\ wb.last.calls[1].type = kTypeDeletion
  /\ wb.last.calls[2].type = kTypeValue
  /\ wb.last.calls[2].value = LongValue

\* C15: InsertInto of a well-formed batch with sequence s and count n adds
\* n entries to the memtable, the i-th (from 0) being the i-th record of
\* the batch with sequence number s + i.
C15_InsertIntoConsumesSequenceRange ==
  (wb.phase = "batch" /\ wb.damage = NoDamage /\ wb.last.op = "InsertInto")
    => LET rep == wb.rep_[wb.last.batch]
           ops == wb.ops[wb.last.batch]
           mem == wb.last.calls
       IN /\ wb.last.status = "OK"
          /\ Len(mem) = Count(rep)
          /\ Len(mem) = Len(ops)
          /\ \A i \in 1 .. Len(mem) :
               /\ mem[i].sequence = Sequence(rep) + (i - 1)
               /\ mem[i].type = ops[i].type
               /\ mem[i].key = ops[i].key
               /\ mem[i].value = ops[i].value

C15_Witness ==
  /\ wb.phase = "batch"
  /\ wb.damage = NoDamage
  /\ wb.last.op = "InsertInto"
  /\ Len(wb.last.calls) = MaxOps
  /\ wb.last.calls[1].sequence = 70000
  /\ wb.last.calls[MaxOps].sequence = 70000 + (MaxOps - 1)

\* C16: after Append(dst, src) the count of dst is the sum of the two
\* counts, the sequence of dst is what it was, src is what it was, and
\* Iterate of dst gives the former records of dst and then those of src.
C16_AppendConcatenates ==
  (wb.phase = "batch" /\ wb.last.op = "Append")
    => LET dst == wb.last.batch
           src == 3 - dst
           before == wb.last.before
       IN /\ Count(wb.rep_[dst]) = Count(before[dst]) + Count(before[src])
          /\ Sequence(wb.rep_[dst]) = Sequence(before[dst])
          /\ wb.rep_[src] = before[src]
          /\ Iterate(wb.rep_[dst]).status = "OK"
          /\ Iterate(wb.rep_[dst]).calls
               = Iterate(before[dst]).calls \o Iterate(before[src]).calls

C16_Witness ==
  /\ wb.phase = "batch"
  /\ wb.last.op = "Append"
  /\ Count(wb.last.before[1]) = 1
  /\ Count(wb.last.before[2]) = 2
  /\ Count(wb.rep_[wb.last.batch]) = 3
  /\ Sequence(wb.last.before[1]) # Sequence(wb.last.before[2])

\* C17: Iterate returns a Corruption status, never OK, when rep_ is
\* shorter than the header of 12 bytes, a tag is neither kTypeValue nor
\* kTypeDeletion, a length prefix is unterminated or runs past the end of
\* rep_, or the number of records differs from the count of the header.
C17_DamagedBatchIsCorruption ==
  (wb.phase = "batch" /\ wb.damage.kind # "none"
     /\ wb.last.op \in {"Iterate", "InsertInto"})
    => /\ wb.last.status \in Corruptions
       /\ wb.damage.kind = "short"
            => wb.last.status = "Corruption: malformed WriteBatch (too small)"
       /\ wb.damage.kind = "tag"
            => wb.last.status = "Corruption: unknown WriteBatch tag"
       /\ wb.damage.kind \in {"length", "cut"}
            => wb.last.status \in {"Corruption: bad WriteBatch Put",
                                   "Corruption: bad WriteBatch Delete"}
       /\ wb.damage.kind = "count"
            => wb.last.status = "Corruption: WriteBatch has wrong count"

C17_Witness ==
  /\ wb.phase = "batch"
  /\ wb.damage.kind = "count"
  /\ wb.last.op = "Iterate"
  /\ Len(wb.last.calls) = MaxOps

\* C18 as stated: the batch of Put("k1", "v1"), Delete("k2"),
\* Put("k3", "v3") has count 3 and a size of 37 bytes.
C18_SizeIs37 ==
  \A b \in 1 .. 2 :
    (/\ wb.phase = "batch"
     /\ wb.damage = NoDamage
     /\ Records(wb.ops[b])
          = << [type |-> kTypeValue, key |-> <<107, 49>>, value |-> <<118, 49>>],
               [type |-> kTypeDeletion, key |-> <<107, 50>>, value |-> <<>>],
               [type |-> kTypeValue, key |-> <<107, 51>>, value |-> <<118, 51>>] >>)
      => (Count(wb.rep_[b]) = 3 /\ Len(wb.rep_[b]) = 37)

\* C18, amended: the batch of Put("k1", "v1"), Delete("k2"),
\* Put("k3", "v3") has count 3 and a size of 30 bytes: the header of 12
\* bytes and records of 1 + (1 + 2) + (1 + 2) = 7, 1 + (1 + 2) = 4 and 7.
C18_SizeIs30 ==
  \A b \in 1 .. 2 :
    (/\ wb.phase = "batch"
     /\ wb.damage = NoDamage
     /\ Records(wb.ops[b])
          = << [type |-> kTypeValue, key |-> <<107, 49>>, value |-> <<118, 49>>],
               [type |-> kTypeDeletion, key |-> <<107, 50>>, value |-> <<>>],
               [type |-> kTypeValue, key |-> <<107, 51>>, value |-> <<118, 51>>] >>)
      => (Count(wb.rep_[b]) = 3 /\ Len(wb.rep_[b]) = 12 + 7 + 4 + 7)

C18_Witness ==
  /\ wb.phase = "batch"
  /\ wb.damage = NoDamage
  /\ wb.last.op = "Put"
  /\ wb.last.batch = 1
  /\ Len(wb.ops[2]) = 0
  /\ Len(wb.ops[1]) = 3
  /\ wb.ops[1][1].value = <<118, 49>>
  /\ wb.ops[1][2].key = <<107, 50>>
  /\ wb.ops[1][3].value = <<118, 51>>
  /\ Len(wb.rep_[1]) = 30

\* The type, key and value of the calls the handler or the memtable got
Received(calls) ==
  [i \in 1 .. Len(calls) |->
     [type |-> calls[i].type, key |-> calls[i].key, value |-> calls[i].value]]

\* C37: when Iterate or InsertInto returns Corruption for a damaged batch,
\* the handler or the memtable has received the records before the first
\* damaged one, in order, and no other; all the records when only the count
\* of the header is wrong; none when the contents are shorter than a header.
C37_CorruptBatchIsAppliedAsPrefix ==
  (wb.phase = "batch" /\ wb.damage.kind # "none"
     /\ wb.last.op \in {"Iterate", "InsertInto"})
    => LET ops == wb.ops[wb.last.batch]
       IN /\ wb.last.status \in Corruptions
          /\ wb.damage.kind \in {"tag", "length", "cut"}
               => Received(wb.last.calls)
                    = Records(SubSeq(ops, 1, wb.damage.record - 1))
          /\ wb.damage.kind = "count" => Received(wb.last.calls) = Records(ops)
          /\ wb.damage.kind = "short" => wb.last.calls = <<>>

\* InsertInto of a batch of MaxOps records whose last record has an unknown
\* tag returned Corruption after the memtable received the records before
\* it.
C37_Witness ==
  /\ wb.phase = "batch"
  /\ wb.damage.kind = "tag"
  /\ wb.damage.record = MaxOps
  /\ wb.last.op = "InsertInto"
  /\ wb.last.status = "Corruption: unknown WriteBatch tag"
  /\ Len(wb.last.calls) = MaxOps - 1

(***************************************************************************)
(* Properties of the table builder.                                        *)
(***************************************************************************)
\* The entries of the data blocks appended whole to the file, in file order
DataBlockEntries ==
  LET contents == tb.rep_.file.contents
      entries[i \in 0 .. Len(contents)] ==
        IF i = 0
        THEN <<>>
        ELSE IF /\ contents[i].complete
                /\ contents[i].data.what = "block"
                /\ contents[i].data.block = "data"
        THEN entries[i - 1] \o contents[i].data.entries
        ELSE entries[i - 1]
  IN entries[Len(contents)]

\* C19: after Add calls with strictly increasing keys and Finish on a file
\* that never fails, Finish returns OK and the data blocks in the file hold
\* exactly the added pairs, in the order added.
C19_DataBlocksHoldAddedPairs ==
  (tb.phase = "table" /\ tb.last = "Finish" /\ tb.rep_.file.fail_at = 0)
    => /\ tb.returned = OK
       /\ DataBlockEntries = tb.added

\* C20: once an Append or Flush of the file has failed, the status of the
\* builder is that error, no Append or Flush is made on the file after the
\* failed one, and Finish returns that error.
C20_FirstErrorIsKept ==
  (/\ tb.phase = "table"
   /\ tb.rep_.file.fail_at > 0
   /\ tb.rep_.file.ops >= tb.rep_.file.fail_at)
    => /\ tb.rep_.status = [code |-> "IOError", op |-> tb.rep_.file.fail_at]
       /\ tb.rep_.file.ops = tb.rep_.file.fail_at
       /\ \A i \in 1 .. Len(tb.rep_.file.contents) :
            ~tb.rep_.file.contents[i].complete => i = Len(tb.rep_.file.contents)
       /\ tb.last = "Finish" => tb.returned = tb.rep_.status

C20_Witness ==
  /\ tb.phase = "table"
  /\ tb.last = "Finish"
  /\ tb.rep_.file.fail_at = 2
  /\ tb.rep_.file.ops = 2
  /\ tb.rep_.file.partial
  /\ Len(tb.rep_.file.contents) = 2
  /\ tb.rep_.num_entries = 2
  /\ tb.returned = [code |-> "IOError", op |-> 2]

\* C21: after every operation of the builder FileSize() is the number of
\* bytes of the blocks, each with its trailer of 5 bytes, and of the footer
\* whose appends all succeeded; the handles of the footer give the offset in
\* the file and the size without trailer of the blocks they name; after a
\* Finish that returned OK FileSize() is the length of the file.
C21_FileSizeCountsWhatWasAppended ==
  tb.phase = "table"
    => LET contents == tb.rep_.file.contents
           n == Len(contents)
           length[i \in 0 .. n] ==
             IF i = 0 THEN 0 ELSE length[i - 1] + contents[i].data.size
           Counted(i) ==
             /\ contents[i].complete
             /\ contents[i].data.what = "block" => (i < n /\ contents[i + 1].complete)
           counted[i \in 0 .. n] ==
             IF i = 0
             THEN 0
             ELSE counted[i - 1] + (IF Counted(i) THEN contents[i].data.size ELSE 0)
           Names(handle, block, i) ==
             /\ contents[i].data.what = "block"
             /\ contents[i].data.block = block
             /\ handle.offset = length[i - 1]
             /\ handle.size = contents[i].data.size
       IN /\ FileSize(tb.rep_) = counted[n]
          /\ \A f \in 1 .. n :
               contents[f].data.what = "footer"
                 => /\ \E i \in 1 .. n :
                         Names(contents[f].data.metaindex_handle, "metaindex", i)
                    /\ \E i \in 1 .. n :
                         Names(contents[f].data.index_handle, "index", i)
          /\ (tb.last = "Finish" /\ tb.returned = OK)
               => FileSize(tb.rep_) = length[n]

C21_Witness ==
  /\ tb.phase = "table"
  /\ tb.last = "Finish"
  /\ tb.returned = OK
  /\ tb.rep_.num_entries = 2
  /\ tb.rep_.file.contents[1].data.compressed
  /\ tb.rep_.file.contents[5].data.index_handle = [offset |-> 11, size |-> 6]
  /\ FileSize(tb.rep_) = 6 + 5 + 6 + 5 + 48

\* The size of the raw form of a block appended to the file
RawSizeOf(data) ==
  CurrentSizeEstimate([block |-> data.block, entries |-> data.entries],
                      IF data.block = "index"
                      THEN 1
                      ELSE tb.rep_.options.block_restart_interval)

\* The trailer appended after the block at place i of the file, if it was,
\* holds type.
TrailerTypeIs(i, type) ==
  LET contents == tb.rep_.file.contents
  IN i < Len(contents) => contents[i + 1].data.type = type

\* C33: with Snappy configured a block is stored compressed, with the
\* trailer type kSnappyCompression, exactly when Snappy succeeds and the
\* compressed size is at most 87.5% of the raw size (8 * compressed <= 7 *
\* raw); in every other case the raw block is stored with the trailer type
\* kNoCompression.
C33_StoredCompressedAtMostSevenEighths ==
  tb.phase = "table"
    => LET contents == tb.rep_.file.contents
           Shrinks(raw_size) ==
             /\ tb.rep_.options.compression = kSnappyCompression
             /\ tb.rep_.snappy.ok
             /\ 8 * SnappyCompressedSize(tb.rep_.snappy, raw_size) <= 7 * raw_size
       IN \A i \in 1 .. Len(contents) :
            contents[i].data.what = "block"
              => IF Shrinks(RawSizeOf(contents[i].data))
                 THEN /\ contents[i].data.compressed
                      /\ contents[i].data.size =
                           SnappyCompressedSize(tb.rep_.snappy, RawSizeOf(contents[i].data))
                      /\ TrailerTypeIs(i, kSnappyCompression)
                 ELSE /\ ~contents[i].data.compressed
                      /\ contents[i].data.size = RawSizeOf(contents[i].data)
                      /\ TrailerTypeIs(i, kNoCompression)

\* C34: ChangeOptions with options of another block size, called during a
\* build, returns InvalidArgument and leaves the options of the builder as
\* they were.
C34_BlockSizeChangeIsRefused ==
  (/\ tb.phase = "table"
   /\ tb.last = "ChangeOptions"
   /\ tb.asked.block_size # tb.before.block_size)
    => /\ tb.returned.code = "InvalidArgument"
       /\ tb.rep_.options = tb.before

(***************************************************************************)
(* Properties of the table cache.                                          *)
(***************************************************************************)
Finds == {"Get", "NewIterator"}

\* C22: a Get or NewIterator whose FindTable failed -- no file opened under
\* either name, or Table::Open failed on the file that opened -- returns
\* that error with a null handle and leaves the cache as it was; the next
\* find for the same file number gives the file's name to the environment
\* again.
C22_FailedFindIsNotCached ==
  [][/\ (tc'.phase = "tablecache" /\ tc'.last.op \in Finds /\ tc'.n = tc.n + 1
          /\ tc'.last.find # OK)
       => /\ tc'.last.s = tc'.last.find
          /\ tc'.last.handle = NULL
          /\ UNCHANGED <<shard_, heap, deleted>>
          /\ \/ /\ tc'.last.find.code = "IOError"
                /\ tc'.last.tried = <<TableFileName(tc'.last.file_number),
                                      SSTTableFileName(tc'.last.file_number)>>
             \/ /\ tc'.last.find.code = "Corruption"
                /\ Len(tc'.last.tried) \in {1, 2}
     /\ (tc'.phase = "tablecache" /\ tc'.last.op \in Finds /\ tc'.n = tc.n + 1
          /\ tc.last.op \in Finds /\ tc.last.find # OK
          /\ tc'.last.file_number = tc.last.file_number)
       => /\ tc'.last.tried # <<>>
          /\ Head(tc'.last.tried) = TableFileName(tc.last.file_number)]_vars

\* A find fails on a table that is not one while another file is cached,
\* right after a find for the same file failed to open it.
C22_Witness ==
  /\ tc.phase = "tablecache"
  /\ tc.n = 3
  /\ tc.last.op = "NewIterator"
  /\ tc.last.find.code = "Corruption"
  /\ Len(tc.last.tried) = 2
  /\ Len(heap) = 1
  /\ ~heap[1].freed
  /\ tc.last.file_number # DecodeFixed64(heap[1].key)
  /\ Len(tc.iterators) = 2
  /\ tc.iterators[1].status.code = "IOError"

\* The iterators alive that release the handle h when destroyed
LiveIterators(h) ==
  Cardinality({i \in 1 .. Len(tc.iterators) : tc.iterators[i].cleanup = h})

\* C23: after any sequence of Get, NewIterator, Evict and iterator
\* destructions, the handles the table cache acquired on an entry are those
\* it released and one for each live iterator on it: Get released its own,
\* a destroyed iterator released its own, a failed find acquired none.  The
\* entry's reference count is the cache's own reference and one for each
\* live iterator, so no handle was released twice.
C23_HandlesAreReleasedOnce ==
  tc.phase = "tablecache"
    => /\ Len(tc.acquired) = Len(heap)
       /\ Len(tc.released) = Len(heap)
       /\ \A h \in 1 .. Len(heap) :
            /\ tc.acquired[h] = tc.released[h] + LiveIterators(h)
            /\ heap[h].freed => /\ LiveIterators(h) = 0
                                /\ deleted[h] = 1
            /\ ~heap[h].freed
                 => /\ deleted[h] = 0
                    /\ heap[h].refs
                         = LiveIterators(h)
                             + (IF TableLookup(heap,
                                               shard_[Shard(heap[h].hash)].table_,
                                               heap[h].key, heap[h].hash) = h
                                THEN 1 ELSE 0)
       /\ \A i \in 1 .. Len(tc.iterators) :
            tc.iterators[i].cleanup = NULL <=> tc.iterators[i].status # OK
       /\ (tc.last.op \in Finds /\ tc.last.find # OK) => tc.last.handle = NULL

\* Two iterators are alive on a table that a Get read in between.
C23_Witness ==
  /\ tc.phase = "tablecache"
  /\ tc.last.op = "NewIterator"
  /\ Len(heap) = 1
  /\ tc.acquired = <<3>>
  /\ tc.released = <<1>>
  /\ LiveIterators(1) = 2
  /\ heap[1].refs = 3

\* The handles outstanding on the entry h: those of the threads between
\* FindTable's return and their Release, and those of the live iterators
HandlesOutstanding(h) ==
  Cardinality({t \in TableCacheThreads :
                 tc.threads[t].pc = "found" /\ tc.threads[t].handle = h})
    + Cardinality({i \in 1 .. Len(tc.iterators) :
                     tc.iterators[i].cleanup = h})

\* The entry h is the one the hash table holds for its key
InTable(h) ==
  TableLookup(heap, shard_[Shard(heap[h].hash)].table_, heap[h].key,
              heap[h].hash) = h

\* C38: in every interleaving of the threads' Get, NewIterator, Evict and
\* iterator destructions, a thread that FindTable gave a handle, and an
\* iterator that is alive, has the table of its own file, not deleted; an
\* entry is deleted at most once, it is deleted when no handle is
\* outstanding on it and the hash table does not hold it, and it is not
\* deleted before; a thread that has not found its table holds no handle.
C38_TablesLiveWhileHeld ==
  tc.phase = "threads"
    => /\ Len(deleted) = Len(heap)
       /\ \A h \in 1 .. Len(heap) :
            /\ heap[h].freed => /\ HandlesOutstanding(h) = 0
                                /\ deleted[h] = 1
            /\ ~heap[h].freed
                 => /\ deleted[h] = 0
                    /\ heap[h].refs >= 1
                    /\ heap[h].refs
                         = HandlesOutstanding(h) + (IF InTable(h) THEN 1 ELSE 0)
       /\ \A t \in TableCacheThreads :
            /\ tc.threads[t].pc = "found"
                 => /\ tc.threads[t].handle \in 1 .. Len(heap)
                    /\ ~heap[tc.threads[t].handle].freed
                    /\ heap[tc.threads[t].handle].value \div 10
                         = tc.threads[t].file_number
            /\ tc.threads[t].pc # "found" => tc.threads[t].handle = NULL
       /\ \A i \in 1 .. Len(tc.iterators) :
            /\ tc.iterators[i].cleanup = NULL <=> tc.iterators[i].status # OK
            /\ tc.iterators[i].status = OK
                 => /\ tc.iterators[i].cleanup \in 1 .. Len(heap)
                    /\ ~heap[tc.iterators[i].cleanup].freed
                    /\ heap[tc.iterators[i].cleanup].value \div 10
                         = tc.iterators[i].table

\* Two threads missed the same file, both opened it and both inserted it,
\* the second Insert displacing the first entry; each has its iterator, and
\* the file has been evicted since: both entries are alive outside the hash
\* table, each on its iterator's reference alone.
C38_Witness ==
  /\ tc.phase = "threads"
  /\ Len(heap) = 2
  /\ ~heap[1].freed /\ ~heap[2].freed
  /\ heap[1].key = heap[2].key
  /\ ~InTable(1) /\ ~InTable(2)
  /\ heap[1].refs = 1 /\ heap[2].refs = 1
  /\ Len(tc.iterators) = 2
  /\ tc.iterators[1].cleanup # tc.iterators[2].cleanup
  /\ tc.iterators[1].cleanup # NULL /\ tc.iterators[2].cleanup # NULL
  /\ deleted = <<0, 0>>

(***************************************************************************)
(* Properties of the comparator.                                           *)
(***************************************************************************)
\* C24: for start < limit in bytewise order, FindShortestSeparator leaves
\* in *start a string that is at least the old start, less than limit and
\* no longer than the old start; a start that is a prefix of limit is left
\* as it was.
C24_SeparatorIsBetween ==
  (sep.phase = "separator" /\ sep.called
   /\ Compare(sep.start, sep.limit) < 0)
    => /\ Compare(sep.start, sep.result) <= 0
       /\ Compare(sep.result, sep.limit) < 0
       /\ Len(sep.result) <= Len(sep.start)
       /\ IsPrefix(sep.start, sep.limit) => sep.result = sep.start

\* A start is shortened, its second byte incremented past what followed.
C24_Witness ==
  /\ sep.phase = "separator"
  /\ sep.called
  /\ sep.start = <<1, 1, 255>>
  /\ sep.limit = <<1, 3>>
  /\ sep.result = <<1, 2>>

(***************************************************************************)
(* Properties of the POSIX environment.                                    *)
(***************************************************************************)
\* The slots acquired by an Acquire that returned true and not yet given
\* back by a Release that has stored
SlotsOutstanding ==
  LET RECURSIVE Sum(_)
      Sum(t) == IF t = 0 THEN 0 ELSE limiter.threads[t].slots + Sum(t - 1)
  IN Sum(Cardinality(LimiterThreads))

\* C25: at every point of every interleaving of Acquire and Release calls
\* the slots acquired and not released are at most the limit, allowed_ is
\* not negative, and allowed_ plus the slots outstanding is the limit.
C25_LimiterNeverExceedsLimit ==
  limiter.phase = "limiter"
    => /\ SlotsOutstanding <= limiter.limit
       /\ GetAllowed(limiter.l) >= 0
       /\ GetAllowed(limiter.l) + SlotsOutstanding = limiter.limit
       /\ limiter.limit \in {0, kMmapLimit}

\* Every slot is taken while a thread that saw one free without the mutex
\* holds the mutex and has read that none is left.
C25_Witness ==
  /\ limiter.phase = "limiter"
  /\ limiter.limit = kMmapLimit
  /\ SlotsOutstanding = kMmapLimit
  /\ GetAllowed(limiter.l) = 0
  /\ limiter.l.mu_ = 3
  /\ limiter.threads[3].pc = "store"
  /\ limiter.threads[3].call = "Acquire"
  /\ limiter.threads[3].x = 0

\* The threads that are inside LockFile on the file fname
LockingThreads(fname) ==
  {t \in LockThreads : /\ locks.threads[t].call = "LockFile"
                       /\ locks.threads[t].fname = fname
                       /\ locks.threads[t].pc # "idle"}

\* C26: while a lock that LockFile returned has not been given to
\* UnlockFile, its file is in the lock table and this process holds the
\* fcntl write lock on it, and every other LockFile on that name is on its
\* way to the IOError: it has not inserted the name and holds no lock.
C26_HeldLockStaysLocked ==
  locks.phase = "locks"
    => \A my_lock \in locks.held :
         /\ my_lock.name_ \in locks.locked_files_
         /\ locks.k.fcntl[my_lock.name_] = "self"
         /\ locks.k.fds[my_lock.fd_] = my_lock.name_
         /\ \A t \in LockingThreads(my_lock.name_) :
              locks.threads[t].pc \in {"Insert", "close held"}
         /\ \A other \in locks.held :
              other.name_ = my_lock.name_ => other = my_lock

\* The tasks in the order in which Schedule put them in the queue
EnqueuedTasks == [i \in 1 .. Len(bg.enqueued) |-> bg.enqueued[i].function]

\* C27: under every interleaving of Schedule calls one pthread_create at
\* most is made, by the call that enqueues first; the tasks run, the one
\* being run and those still queued are, in this order, the tasks in the
\* order of their enqueueing, so each task runs once at most, one at a
\* time and in that order.
C27_OneThreadRunsTasksInOrder ==
  bg.phase = "bg"
    => /\ Len(bg.e.created) <= 1
       /\ bg.e.created # <<>> <=> bg.enqueued # <<>>
       /\ bg.e.created # <<>> => bg.e.created[1] = bg.enqueued[1].by
       /\ bg.pc = "none" <=> bg.e.created = <<>>
       /\ bg.item # 0 <=> bg.pc = "run"
       /\ bg.executed \o (IF bg.item # 0 THEN <<bg.item>> ELSE <<>>)
             \o bg.e.queue_ = EnqueuedTasks

\* The call made second enqueued first and created the thread, which has
\* run two tasks and is running the third.
C27_Witness ==
  /\ bg.phase = "bg"
  /\ bg.e.created = <<2>>
  /\ EnqueuedTasks = <<2, 1, 3>>
  /\ bg.executed = <<2, 1>>
  /\ bg.item = 3
  /\ bg.pc = "run"

\* The task function has been passed to Schedule: a caller is in Schedule
\* with it, or Schedule has put it in the queue
PassedToSchedule(function) ==
  \/ \E t \in DOMAIN bg.callers :
       /\ bg.callers[t].pc # "idle"
       /\ bg.callers[t].function = function
  \/ \E i \in 1 .. Len(bg.enqueued) : bg.enqueued[i].function = function

Executed(function) ==
  \E i \in 1 .. Len(bg.executed) : bg.executed[i] = function

\* C39: under fair scheduling of the threads that are in Schedule and of
\* the background thread, with pthread_cond_wait returning only after a
\* signal, every task passed to Schedule is executed at some later time,
\* whether an application thread or the running task passed it.
C39_EveryTaskIsExecuted ==
  \A function \in 1 .. MaxTasks :
    PassedToSchedule(function) ~> Executed(function)

\* The first task passed the second from inside the background thread;
\* both have run, the thread found the queue empty and blocked in
\* pthread_cond_wait, and a Schedule call has now signalled it and queued
\* the third task.
C39_Witness ==
  /\ bg.phase = "bg"
  /\ DOMAIN bg.callers = ScheduleThreads \cup {BGThreadId}
  /\ Len(bg.enqueued) = 3
  /\ bg.enqueued[2].by = BGThreadId
  /\ bg.enqueued[3].by \in ScheduleThreads
  /\ bg.executed = <<bg.enqueued[1].function, bg.enqueued[2].function>>
  /\ bg.pc = "wait"
  /\ ~bg.e.waiting
  /\ bg.e.queue_ = <<bg.enqueued[3].function>>
  /\ bg.e.mu_ = 0

(***************************************************************************)
(* Properties of the arena.                                                *)
(***************************************************************************)
\* The region r of the arena lies inside one of its blocks
InsideOneBlock(r) ==
  \E i \in 1 .. Len(arena.a.blocks_) :
    /\ arena.a.blocks_[i].base <= r.ptr
    /\ r.ptr + r.bytes <= arena.a.blocks_[i].base + arena.a.blocks_[i].size

\* The regions r1 and r2 have no byte in common
DisjointRegions(r1, r2) ==
  \/ r1.ptr + r1.bytes <= r2.ptr
  \/ r2.ptr + r2.bytes <= r1.ptr

\* The last call returned a block of its own for an oversized request
ServedByDedicatedBlock ==
  /\ ~arena.last.thrown
  /\ arena.last.bytes > kArenaBlockSize \div 4
  /\ Len(arena.a.blocks_) = Len(arena.last.before.blocks_) + 1
  /\ arena.a.blocks_[Len(arena.a.blocks_)]
       = [base |-> arena.last.result, size |-> arena.last.bytes]

\* C40: after every sequence of Allocate and AllocateAligned calls the
\* regions returned are disjoint, two by two, each lies inside one block of
\* blocks_, and a request of more than a quarter of a block that got a block
\* of its own left alloc_ptr_ and alloc_bytes_remaining_ as they were.
C40_RegionsDisjointInsideBlocks ==
  arena.phase = "arena"
    => /\ \A i \in 1 .. Len(arena.regions) : InsideOneBlock(arena.regions[i])
       /\ \A i, j \in 1 .. Len(arena.regions) :
            i < j => DisjointRegions(arena.regions[i], arena.regions[j])
       /\ ServedByDedicatedBlock
            => /\ arena.a.alloc_ptr_ = arena.last.before.alloc_ptr_
               /\ arena.a.alloc_bytes_remaining_
                    = arena.last.before.alloc_bytes_remaining_

====
